---- MODULE Spec2Model ----
(***************************************************************************)
(* Verification model of search_vulns (Bun.js/TypeScript port):            *)
(*   - the CPE equivalence cache (loadEquivalentCpes / getEquivalentCpes), *)
(*   - the searchVulns pipeline and the batch-search endpoint,             *)
(*   - the record merger (mergeModuleVulns).                               *)
(* CPE strings are TLA+ strings; split(':'), slice and join are computed   *)
(* character by character as the JavaScript code computes them.            *)
(***************************************************************************)
EXTENDS Integers, Sequences, FiniteSets, TLC

(***************************************************************************)
(* Bounds of the model                                                     *)
(***************************************************************************)
MaxCalls == 2
MaxListLen == 2
MaxBatch == 2
MaxRecords == 2

(***************************************************************************)
(* JavaScript string and array helpers                                     *)
(***************************************************************************)
Min(a, b) == IF a < b THEN a ELSE b

Max(a, b) == IF a > b THEN a ELSE b

CharAt(s, i) == SubSeq(s, i, i)

RECURSIVE SplitAcc(_, _, _, _, _)
SplitAcc(s, sep, i, cur, acc) ==
  IF i > Len(s) THEN Append(acc, cur)
  ELSE IF CharAt(s, i) = sep
       THEN SplitAcc(s, sep, i + 1, "", Append(acc, cur))
       ELSE SplitAcc(s, sep, i + 1, cur \o CharAt(s, i), acc)

\* String.prototype.split(':')
Split(s) == SplitAcc(s, ":", 1, "", <<>>)

RECURSIVE Join(_, _)
\* Array.prototype.join(sep)
Join(parts, sep) ==
  IF Len(parts) = 0 THEN ""
  ELSE IF Len(parts) = 1 THEN parts[1]
  ELSE parts[1] \o sep \o Join(Tail(parts), sep)

\* Array.prototype.slice(from) with a 0-based start index
SliceFrom(parts, from) ==
  IF from >= Len(parts) THEN <<>> ELSE SubSeq(parts, from + 1, Len(parts))

\* cpe.split(':').slice(0, 5).join(':') + ':'
ProductPrefix(cpe) ==
  LET parts == Split(cpe)
  IN Join(SubSeq(parts, 1, Min(5, Len(parts))), ":") \o ":"

Includes(list, x) == \E i \in 1..Len(list) : list[i] = x

Range(list) == {list[i] : i \in 1..Len(list)}

RECURSIVE Flatten(_)
Flatten(lists) ==
  IF Len(lists) = 0 THEN <<>> ELSE Head(lists) \o Flatten(Tail(lists))

(***************************************************************************)
(* JavaScript objects used as string-keyed maps: insertion-ordered         *)
(* sequences of [k, v] entries with pairwise distinct keys.                *)
(***************************************************************************)
Keys(d) == [i \in 1..Len(d) |-> d[i].k]

Has(d, key) == \E i \in 1..Len(d) : d[i].k = key

Get(d, key) == d[CHOOSE i \in 1..Len(d) : d[i].k = key].v

Put(d, key, val) ==
  IF Has(d, key)
  THEN [i \in 1..Len(d) |-> IF d[i].k = key THEN [k |-> key, v |-> val] ELSE d[i]]
  ELSE Append(d, [k |-> key, v |-> val])

\* EQUIVALENT_CPES[cpePrefix] || []
GetOrEmpty(d, key) == IF Has(d, key) THEN Get(d, key) ELSE <<>>

(***************************************************************************)
(* CPE helpers (equivalent_cpes.ts)                                        *)
(***************************************************************************)
Letters ==
  {"a","b","c","d","e","f","g","h","i","j","k","l","m","n","o","p","q","r",
   "s","t","u","v","w","x","y","z","A","B","C","D","E","F","G","H","I","J",
   "K","L","M","N","O","P","Q","R","S","T","U","V","W","X","Y","Z"}

Digits == {"0","1","2","3","4","5","6","7","8","9"}

\* end index of the maximal run of characters of class cls starting at i
RECURSIVE RunEnd(_, _, _)
RunEnd(s, i, cls) ==
  IF i < Len(s) /\ CharAt(s, i + 1) \in cls THEN RunEnd(s, i + 1, cls) ELSE i

\* versionStr.match(/([a-zA-Z\.]+|[\d\.]+)/g)
RECURSIVE MatchSections(_, _, _)
MatchSections(s, i, acc) ==
  IF i > Len(s) THEN acc
  ELSE IF CharAt(s, i) \in Letters \cup {"."}
       THEN LET j == RunEnd(s, i, Letters \cup {"."})
            IN MatchSections(s, j + 1, Append(acc, SubSeq(s, i, j)))
       ELSE IF CharAt(s, i) \in Digits
            THEN LET j == RunEnd(s, i, Digits \cup {"."})
                 IN MatchSections(s, j + 1, Append(acc, SubSeq(s, i, j)))
            ELSE MatchSections(s, i + 1, acc)

\* the version taken as one section
getVersionSections_Whole(versionStr) ==
  IF versionStr = "" \/ versionStr = "*" \/ versionStr = "-" THEN <<>>
  ELSE <<versionStr>>

getVersionSections(versionStr) ==
  IF versionStr = "" \/ versionStr = "*" \/ versionStr = "-" THEN <<>>
  ELSE MatchSections(versionStr, 1, <<>>)

\* isCpeEqual with '*' compared like any other value
isCpeEqual_Literal(cpe1, cpe2) ==
  LET parts1 == Split(cpe1)
      parts2 == Split(cpe2)
  IN \A i \in 1..Min(Len(parts1), Len(parts2)) : parts1[i] = parts2[i]

isCpeEqual(cpe1, cpe2) ==
  LET parts1 == Split(cpe1)
      parts2 == Split(cpe2)
  IN \A i \in 1..Min(Len(parts1), Len(parts2)) :
       ~(parts1[i] # parts2[i] /\ parts1[i] # "*" /\ parts2[i] # "*")

(***************************************************************************)
(* loadEquivalentCpes: the synchronous blocks between its await points     *)
(***************************************************************************)
FULL_DEPRECATION_THRESHOLD_NUM == 16

FULL_DEPRECATION_THRESHOLD_DEN == 100

\* Array.from(new Set(list)): drop repeated elements, keep first occurrences
RECURSIVE Dedup(_, _)
Dedup(list, acc) ==
  IF Len(list) = 0 THEN acc
  ELSE Dedup(Tail(list), IF Includes(acc, Head(list)) THEN acc ELSE Append(acc, Head(list)))

\* if (!(k in d)) d[k] = [x]; else if (!d[k].includes(x)) d[k].push(x)
AddEdge(d, key, x) ==
  IF ~Has(d, key) THEN Put(d, key, <<x>>)
  ELSE IF ~Includes(Get(d, key), x) THEN Put(d, key, Append(Get(d, key), x))
  ELSE d

\* lines 66-73: group the raw deprecations by product prefix
RECURSIVE GroupByProduct(_, _, _)
GroupByProduct(raw, i, acc) ==
  IF i > Len(raw) THEN acc
  ELSE LET prefix == ProductPrefix(raw[i].k)
           inner == IF Has(acc, prefix) THEN Get(acc, prefix) ELSE <<>>
       IN GroupByProduct(raw, i + 1, Put(acc, prefix, Put(inner, raw[i].k, raw[i].v)))

\* lines 93-102: distinct replacement prefixes other than the product's own
RECURSIVE CollectPrefixes(_, _, _)
CollectPrefixes(productCpePrefix, byList, acc) ==
  IF Len(byList) = 0 THEN acc
  ELSE LET deprecatedByCpePrefix == ProductPrefix(Head(byList))
       IN CollectPrefixes(productCpePrefix, Tail(byList),
            IF productCpePrefix # deprecatedByCpePrefix /\ ~Includes(acc, deprecatedByCpePrefix)
            THEN Append(acc, deprecatedByCpePrefix) ELSE acc)

\* lines 112-118: reverse edges of a fully deprecated product
RECURSIVE AddReverse(_, _, _)
AddReverse(d, prefixes, productCpePrefix) ==
  IF Len(prefixes) = 0 THEN d
  ELSE AddReverse(AddEdge(d, Head(prefixes), productCpePrefix), Tail(prefixes), productCpePrefix)

\* lines 90-118
FullDeprecation(d, productCpePrefix, deprecations) ==
  LET deprecationsPrefixes ==
        CollectPrefixes(productCpePrefix,
                        Flatten([i \in 1..Len(deprecations) |-> deprecations[i].v]), <<>>)
      d1 == IF ~Has(d, productCpePrefix)
            THEN Put(d, productCpePrefix, deprecationsPrefixes)
            ELSE Put(d, productCpePrefix,
                     Dedup(Get(d, productCpePrefix) \o deprecationsPrefixes, <<>>))
  IN AddReverse(d1, deprecationsPrefixes, productCpePrefix)

\* lines 122-136: one deprecated full CPE and its replacements
RECURSIVE VersionPairs(_, _, _)
VersionPairs(d, fullProductCpe, byList) ==
  IF Len(byList) = 0 THEN d
  ELSE LET deprecatedByCpe == Head(byList)
       IN VersionPairs(
            IF ~isCpeEqual(fullProductCpe, deprecatedByCpe)
            THEN AddEdge(AddEdge(d, fullProductCpe, deprecatedByCpe), deprecatedByCpe, fullProductCpe)
            ELSE d,
            fullProductCpe, Tail(byList))

\* lines 121-137
RECURSIVE VersionDeprecation(_, _, _)
VersionDeprecation(d, deprecations, i) ==
  IF i > Len(deprecations) THEN d
  ELSE VersionDeprecation(VersionPairs(d, deprecations[i].k, deprecations[i].v),
                          deprecations, i + 1)

\* Object.keys(deprecations).length >= productCpeCount * FULL_DEPRECATION_THRESHOLD
ReachesThreshold(n, productCpeCount) ==
  n * FULL_DEPRECATION_THRESHOLD_DEN >= productCpeCount * FULL_DEPRECATION_THRESHOLD_NUM

\* lines 76-143; counts.exists = FALSE is the missing product_cpe_counts table
RECURSIVE ProcessDeprecations(_, _, _, _)
ProcessDeprecations(d, grouped, counts, i) ==
  IF i > Len(grouped) THEN d
  ELSE LET productCpePrefix == ProductPrefix(grouped[i].k)
           deprecations == grouped[i].v
           productCpeCount == IF counts.exists /\ Has(counts.rows, productCpePrefix)
                              THEN Get(counts.rows, productCpePrefix) ELSE 0
           d1 == IF productCpeCount = 0 THEN d
                 ELSE IF ReachesThreshold(Len(deprecations), productCpeCount)
                      THEN FullDeprecation(d, productCpePrefix, deprecations)
                      ELSE VersionDeprecation(d, deprecations, 1)
       IN ProcessDeprecations(d1, grouped, counts, i + 1)

DeprecatedCpes(raw, counts) ==
  ProcessDeprecations(<<>>, GroupByProduct(raw, 1, <<>>), counts, 1)

\* lines 176-182: one source dictionary merged into EQUIVALENT_CPES
RECURSIVE UniteDict(_, _, _)
UniteDict(eq, dict, i) ==
  IF i > Len(dict) THEN eq
  ELSE UniteDict(Put(eq, dict[i].k, GetOrEmpty(eq, dict[i].k) \o dict[i].v), dict, i + 1)

\* lines 175-183
RECURSIVE Unite(_, _)
Unite(eq, dictsList) ==
  IF Len(dictsList) = 0 THEN eq
  ELSE Unite(UniteDict(eq, Head(dictsList), 1), Tail(dictsList))

\* lines 189-202: the inner loop for one key of the snapshot
RECURSIVE LinkOthers(_, _, _, _)
LinkOthers(eq, equivCpe, otherEquivCpes, i) ==
  IF i > Len(otherEquivCpes) THEN eq
  ELSE LET otherEquivCpe == otherEquivCpes[i]
           otherRelevantEquivCpes ==
             [j \in 1..Len(otherEquivCpes) |->
                IF otherEquivCpes[j] = otherEquivCpe THEN equivCpe ELSE otherEquivCpes[j]]
           eq1 == IF ~Has(eq, otherEquivCpe)
                  THEN Put(eq, otherEquivCpe, otherRelevantEquivCpes)
                  ELSE IF ~Includes(Get(eq, otherEquivCpe), equivCpe)
                       THEN Put(eq, otherEquivCpe,
                                Get(eq, otherEquivCpe) \o otherRelevantEquivCpes)
                       ELSE eq
       IN LinkOthers(eq1, equivCpe, otherEquivCpes, i + 1)

\* the reverse directions are never recorded
Link_NoReverse(eq, cpeKeys, i) == eq

\* lines 186-203: ensure bidirectional linking over the snapshot cpeKeys
RECURSIVE Link(_, _, _)
Link(eq, cpeKeys, i) ==
  IF i > Len(cpeKeys) THEN eq
  ELSE Link(LinkOthers(eq, cpeKeys[i], Get(eq, cpeKeys[i]), 1), cpeKeys, i + 1)

\* lines 174-203
UniteAndLink(eq, dictsList) ==
  LET united == Unite(eq, dictsList)
  IN Link(united, Keys(united), 1)

(***************************************************************************)
(* getEquivalentCpes: the synchronous part after the cache is loaded       *)
(***************************************************************************)
\* Set.prototype.add on an insertion-ordered set
SetAdd(set, x) == IF Includes(set, x) THEN set ELSE Append(set, x)

RECURSIVE SetAddAll(_, _)
SetAddAll(set, items) ==
  IF Len(items) = 0 THEN set ELSE SetAddAll(SetAdd(set, Head(items)), Tail(items))

\* lines 266-288; raw is the shared rawEquivCpePrefixes, the result carries
\* its new value together with the returned additionalCpePrefixes
RECURSIVE getAdditionalEquivCpes(_, _, _)
RECURSIVE AdditionalLoop(_, _, _, _, _)
getAdditionalEquivCpes(eq, cpePrefix, raw) ==
  IF ~Has(eq, cpePrefix) THEN [raw |-> raw, add |-> <<>>]
  ELSE IF Includes(raw, cpePrefix) THEN [raw |-> raw, add |-> <<>>]
  ELSE AdditionalLoop(eq, Get(eq, cpePrefix), 1, SetAdd(raw, cpePrefix), <<>>)

AdditionalLoop(eq, others, i, raw, add) ==
  IF i > Len(others) THEN [raw |-> raw, add |-> add]
  ELSE LET otherCpePrefix == others[i]
       IN IF ~Includes(raw, otherCpePrefix)
          THEN LET nested == getAdditionalEquivCpes(eq, otherCpePrefix, raw)
               IN AdditionalLoop(eq, others, i + 1,
                                 SetAdd(nested.raw, otherCpePrefix),
                                 SetAddAll(SetAdd(add, otherCpePrefix), nested.add))
          ELSE AdditionalLoop(eq, others, i + 1, raw, add)

\* a one-hop lookup: only the direct neighbours of the prefix are collected
RawPrefixLoop_DirectOnly(eq, equivCpesForPrefix, i, raw) ==
  SetAddAll(raw, equivCpesForPrefix)

\* lines 290-298
RECURSIVE RawPrefixLoop(_, _, _, _)
RawPrefixLoop(eq, equivCpesForPrefix, i, raw) ==
  IF i > Len(equivCpesForPrefix) THEN raw
  ELSE IF ~Includes(raw, equivCpesForPrefix[i])
       THEN LET r == getAdditionalEquivCpes(eq, equivCpesForPrefix[i], raw)
            IN RawPrefixLoop(eq, equivCpesForPrefix, i + 1, SetAddAll(r.raw, r.add))
       ELSE RawPrefixLoop(eq, equivCpesForPrefix, i + 1, raw)

rawEquivCpePrefixes(eq, cpe) ==
  RawPrefixLoop(eq, GetOrEmpty(eq, ProductPrefix(cpe)), 1, <<>>)

\* no version variants
VersionVariants_OriginalOnly(cpe) == <<cpe>>

\* lines 232-261: the original CPE and its version variants
VersionVariants(cpe) ==
  LET cpeSplit == Split(cpe)
      cpeVersion == IF Len(cpeSplit) > 5 THEN cpeSplit[6] ELSE "*"
      cpeSubversion == IF Len(cpeSplit) > 6 THEN cpeSplit[7] ELSE "*"
      cpeVersionSections == getVersionSections(cpeVersion)
      \* newCpeSplit[5] = ...; newCpeSplit[6] = ...  (holes print as empty fields)
      SetFields(v, subv) ==
        [i \in 1..Max(Len(cpeSplit), 7) |->
           IF i = 6 THEN v ELSE IF i = 7 THEN subv
           ELSE IF i <= Len(cpeSplit) THEN cpeSplit[i] ELSE ""]
      splitVariant ==
        IF Len(cpeVersionSections) > 1 /\ cpeSubversion \in {"*", "", "-"}
        THEN <<Join(SetFields(Join(SubSeq(cpeVersionSections, 1, Len(cpeVersionSections) - 1), ""),
                              cpeVersionSections[Len(cpeVersionSections)]), ":")>>
        ELSE <<>>
      combinedVariant ==
        IF cpeSubversion \notin {"*", "", "-"}
        THEN <<Join(SetFields(cpeVersion \o "-" \o cpeSubversion, "*"), ":")>>
        ELSE <<>>
  IN <<cpe>> \o splitVariant \o combinedVariant

\* the substitution applied to the original CPE only
PrefixSubstitutions_OriginalOnly(cpes, raw, cpePrefix) ==
  Flatten([r \in 1..Len(raw) |->
    IF raw[r] # cpePrefix
    THEN <<ProductPrefix(raw[r]) \o Join(SliceFrom(Split(cpes[1]), 5), ":")>>
    ELSE <<>>])

\* lines 301-310: substitute every raw equivalent prefix into every variant
PrefixSubstitutions(cpes, raw, cpePrefix) ==
  Flatten([c \in 1..Len(cpes) |->
    Flatten([r \in 1..Len(raw) |->
      IF raw[r] # cpePrefix
      THEN <<ProductPrefix(raw[r]) \o Join(SliceFrom(Split(cpes[c]), 5), ":")>>
      ELSE <<>>])])

\* lines 313-319: equivalences recorded for full CPEs
FullCpeEquivalences(eq, equivCpes) ==
  Flatten([c \in 1..Len(equivCpes) |-> GetOrEmpty(eq, equivCpes[c])])

\* the list with the equivalents in front of the CPE and its variants
ExpandCpe_EquivalentsFirst(eq, cpe) ==
  PrefixSubstitutions(VersionVariants(cpe), rawEquivCpePrefixes(eq, cpe), ProductPrefix(cpe))
    \o VersionVariants(cpe)

\* lines 232-321
ExpandCpe(eq, cpe) ==
  LET cpes == VersionVariants(cpe)
      raw == rawEquivCpePrefixes(eq, cpe)
      equivCpes == cpes \o PrefixSubstitutions(cpes, raw, ProductPrefix(cpe))
  IN equivCpes \o FullCpeEquivalences(eq, equivCpes)

(***************************************************************************)
(* State of the equivalence cache and of the calls that use it             *)
(***************************************************************************)
VARIABLES
  EQUIVALENT_CPES,         \* the module-level cache (ordered map key -> list)
  EQUIVALENT_CPES_LOADED,  \* the load-guard flag
  resources,               \* the three source files and product_cpe_counts
  pc,                      \* position of each call of load/getEquivalentCpes
  dictsList,               \* equivalentCpesDictsList of each call
  query,                   \* the cpe argument of a getEquivalentCpes call
  result,                  \* the list a getEquivalentCpes call returned
  reads                    \* number of source files each call has read

eqVars == <<EQUIVALENT_CPES, EQUIVALENT_CPES_LOADED, resources, pc, dictsList,
            query, result, reads>>

Calls == 1..MaxCalls

NoQuery == "<load>"

PrefixA == "cpe:2.3:a:redis:redis:"

PrefixB == "cpe:2.3:a:redislabs:redis:"

PrefixC == "cpe:2.3:a:pivotal:redis:"

Prefixes == {PrefixA, PrefixB, PrefixC}

\* version/update/... tails of the CPEs that are expanded
Tails == {"6.0:*:*:*:*:*:*:*", "1.2rc1:*", "1.2:3:*", "1.2.3:*:*:*:*:*:*:*"}

QueryCpes == {p \o "6.0:*:*:*:*:*:*:*" : p \in Prefixes}
             \cup {PrefixA \o t : t \in Tails} \cup {"cpe:2.3:a:redis:redis"}

\* injective lists of prefixes of length 1..n
RECURSIVE ListsUpTo(_)
ListsUpTo(n) ==
  IF n = 0 THEN {<<>>}
  ELSE LET shorter == ListsUpTo(n - 1)
       IN shorter \cup {Append(l, p) : l \in {x \in shorter : Len(x) = n - 1},
                                       p \in Prefixes}

PrefixLists == {l \in ListsUpTo(MaxListLen) :
                  Len(l) > 0 /\ \A i, j \in 1..Len(l) : i # j => l[i] # l[j]}

\* source dictionaries with at most one / at most two entries
Dicts1 == {<<>>} \cup {<<[k |-> p, v |-> l]>> : p \in Prefixes, l \in PrefixLists}

Dicts2 == Dicts1 \cup
          {d \in {<<[k |-> p1, v |-> l1], [k |-> p2, v |-> <<p3>>]>> :
                    p1 \in Prefixes, p2 \in Prefixes, l1 \in PrefixLists, p3 \in Prefixes} :
             d[1].k # d[2].k}

Absent == [present |-> FALSE, data |-> <<>>]

File(d) == [present |-> TRUE, data |-> d]

\* deprecated-cpes.json: one deprecated CPE of pivotal:redis replaced by redis:redis
DeprecatedRaw ==
  <<[k |-> "cpe:2.3:a:pivotal:redis:5.0:*:*:*:*:*:*:*",
     v |-> <<"cpe:2.3:a:redis:redis:5.0:*:*:*:*:*:*:*">>]>>

NoCounts == [exists |-> FALSE, rows |-> <<>>]

Counts(n) == [exists |-> TRUE, rows |-> <<[k |-> PrefixC, v |-> n]>>]

DeprecationSetups ==
  {[deprecated |-> Absent, counts |-> NoCounts],
   [deprecated |-> File(DeprecatedRaw), counts |-> NoCounts],
   [deprecated |-> File(DeprecatedRaw), counts |-> Counts(4)],
   [deprecated |-> File(DeprecatedRaw), counts |-> Counts(10)]}

Resources(setups, manuals, debians) ==
  {[deprecated |-> s.deprecated, counts |-> s.counts, manual |-> m, debian |-> d] :
     s \in setups,
     m \in {Absent} \cup {File(x) : x \in manuals},
     d \in {Absent} \cup {File(x) : x \in debians}}

InitCalls ==
  /\ EQUIVALENT_CPES = <<>>
  /\ EQUIVALENT_CPES_LOADED = FALSE
  /\ pc = [c \in Calls |-> "idle"]
  /\ dictsList = [c \in Calls |-> <<>>]
  /\ query = [c \in Calls |-> NoQuery]
  /\ result = [c \in Calls |-> <<>>]
  /\ reads = [c \in Calls |-> 0]

(***************************************************************************)
(* Actions: one per run of code between two suspension points              *)
(***************************************************************************)
\* the loaded flag is not consulted on entry
EnterLoad_NoGuard(c, q) ==
  /\ pc[c] = "idle"
  /\ query' = [query EXCEPT ![c] = q]
  /\ result' = [result EXCEPT ![c] = <<>>]
  /\ reads' = [reads EXCEPT ![c] = 0]
  /\ dictsList' = [dictsList EXCEPT ![c] = <<>>]
  /\ pc' = [pc EXCEPT ![c] = "readDeprecated"]
  /\ UNCHANGED <<EQUIVALENT_CPES, EQUIVALENT_CPES_LOADED, resources>>

\* lines 50-62: the guard, then suspension at the first file read
EnterLoad(c, q) ==
  /\ pc[c] = "idle"
  /\ query' = [query EXCEPT ![c] = q]
  /\ result' = [result EXCEPT ![c] = <<>>]
  /\ reads' = [reads EXCEPT ![c] = 0]
  /\ dictsList' = [dictsList EXCEPT ![c] = <<>>]
  /\ pc' = [pc EXCEPT ![c] = IF EQUIVALENT_CPES_LOADED THEN "loaded" ELSE "readDeprecated"]
  /\ UNCHANGED <<EQUIVALENT_CPES, EQUIVALENT_CPES_LOADED, resources>>

\* a direct call of loadEquivalentCpes
StartLoad(c) == EnterLoad(c, NoQuery)

\* getEquivalentCpes(cpe, db), line 230
StartGet(c, cpes) == \E q \in cpes : EnterLoad(c, q)

\* lines 62-158: deprecated-cpes.json was read (or the read failed)
LoadDeprecated(c) ==
  /\ pc[c] = "readDeprecated"
  /\ dictsList' = [dictsList EXCEPT ![c] =
       IF resources.deprecated.present
       THEN Append(@, DeprecatedCpes(resources.deprecated.data, resources.counts))
       ELSE @]
  /\ reads' = [reads EXCEPT ![c] = @ + 1]
  /\ pc' = [pc EXCEPT ![c] = "readManual"]
  /\ UNCHANGED <<EQUIVALENT_CPES, EQUIVALENT_CPES_LOADED, resources, query, result>>

\* lines 158-167: man_equiv_cpes.json was read (or the read failed)
LoadManual(c) ==
  /\ pc[c] = "readManual"
  /\ dictsList' = [dictsList EXCEPT ![c] =
       IF resources.manual.present THEN Append(@, resources.manual.data) ELSE @]
  /\ reads' = [reads EXCEPT ![c] = @ + 1]
  /\ pc' = [pc EXCEPT ![c] = "readDebian"]
  /\ UNCHANGED <<EQUIVALENT_CPES, EQUIVALENT_CPES_LOADED, resources, query, result>>

\* lines 167-205: debian_equiv_cpes.json was read, the cache is built
LoadDebian(c) ==
  /\ pc[c] = "readDebian"
  /\ LET all == IF resources.debian.present
                THEN Append(dictsList[c], resources.debian.data) ELSE dictsList[c]
     IN /\ dictsList' = [dictsList EXCEPT ![c] = all]
        /\ EQUIVALENT_CPES' = UniteAndLink(EQUIVALENT_CPES, all)
  /\ EQUIVALENT_CPES_LOADED' = TRUE
  /\ reads' = [reads EXCEPT ![c] = @ + 1]
  /\ pc' = [pc EXCEPT ![c] = "loaded"]
  /\ UNCHANGED <<resources, query, result>>

\* a direct loadEquivalentCpes call resolves
ReturnLoad(c) ==
  /\ pc[c] = "loaded"
  /\ query[c] = NoQuery
  /\ pc' = [pc EXCEPT ![c] = "done"]
  /\ UNCHANGED <<EQUIVALENT_CPES, EQUIVALENT_CPES_LOADED, resources, dictsList,
                 query, result, reads>>

\* lines 232-321: getEquivalentCpes continues after the awaited load
Expand(c) ==
  /\ pc[c] = "loaded"
  /\ query[c] # NoQuery
  /\ result' = [result EXCEPT ![c] = ExpandCpe(EQUIVALENT_CPES, query[c])]
  /\ pc' = [pc EXCEPT ![c] = "done"]
  /\ UNCHANGED <<EQUIVALENT_CPES, EQUIVALENT_CPES_LOADED, resources, dictsList,
                 query, reads>>

\* the caller is free to issue its next call
NextCall(c) ==
  /\ pc[c] = "done"
  /\ pc' = [pc EXCEPT ![c] = "idle"]
  /\ query' = [query EXCEPT ![c] = NoQuery]
  /\ result' = [result EXCEPT ![c] = <<>>]
  /\ reads' = [reads EXCEPT ![c] = 0]
  /\ dictsList' = [dictsList EXCEPT ![c] = <<>>]
  /\ UNCHANGED <<EQUIVALENT_CPES, EQUIVALENT_CPES_LOADED, resources>>

\* lines 62-180: the dictionaries one complete load collects from the sources
\* that are present
LoadedDicts ==
  (IF resources.deprecated.present
   THEN <<DeprecatedCpes(resources.deprecated.data, resources.counts)>> ELSE <<>>)
  \o (IF resources.manual.present THEN <<resources.manual.data>> ELSE <<>>)
  \o (IF resources.debian.present THEN <<resources.debian.data>> ELSE <<>>)

(***************************************************************************)
(* More JavaScript string helpers                                          *)
(***************************************************************************)
UpperAlphabet == "ABCDEFGHIJKLMNOPQRSTUVWXYZ"

LowerAlphabet == "abcdefghijklmnopqrstuvwxyz"

\* the characters of version and identifier strings in UTF-16 code unit order
CodeUnitOrder ==
  " *+-.0123456789:ABCDEFGHIJKLMNOPQRSTUVWXYZ_abcdefghijklmnopqrstuvwxyz~"

\* String.prototype.indexOf for one character, 1-based, 0 when absent
IndexOf(str, ch) ==
  IF \E i \in 1..Len(str) : CharAt(str, i) = ch
  THEN CHOOSE i \in 1..Len(str) :
         CharAt(str, i) = ch /\ \A j \in 1..(i - 1) : CharAt(str, j) # ch
  ELSE 0

RECURSIVE MapChars(_, _, _)
MapChars(s, from, to) ==
  IF Len(s) = 0 THEN ""
  ELSE LET c == CharAt(s, 1)
           k == IndexOf(from, c)
       IN (IF k > 0 THEN CharAt(to, k) ELSE c) \o MapChars(SubSeq(s, 2, Len(s)), from, to)

ToUpperCase(s) == MapChars(s, LowerAlphabet, UpperAlphabet)

ToLowerCase(s) == MapChars(s, UpperAlphabet, LowerAlphabet)

RECURSIVE TrimStart(_)
TrimStart(s) ==
  IF Len(s) > 0 /\ CharAt(s, 1) = " " THEN TrimStart(SubSeq(s, 2, Len(s))) ELSE s

RECURSIVE TrimEnd(_)
TrimEnd(s) ==
  IF Len(s) > 0 /\ CharAt(s, Len(s)) = " " THEN TrimEnd(SubSeq(s, 1, Len(s) - 1)) ELSE s

\* String.prototype.trim
Trim(s) == TrimEnd(TrimStart(s))

StartsWith(s, prefix) ==
  Len(s) >= Len(prefix) /\ SubSeq(s, 1, Len(prefix)) = prefix

\* String.prototype.split on any separator of a set
RECURSIVE SplitAny(_, _, _, _, _)
SplitAny(s, seps, i, cur, acc) ==
  IF i > Len(s) THEN Append(acc, cur)
  ELSE IF CharAt(s, i) \in seps
       THEN SplitAny(s, seps, i + 1, "", Append(acc, cur))
       ELSE SplitAny(s, seps, i + 1, cur \o CharAt(s, i), acc)

\* a < b on strings: lexicographic by code unit
RECURSIVE StrLess(_, _)
StrLess(a, b) ==
  IF Len(b) = 0 THEN FALSE
  ELSE IF Len(a) = 0 THEN TRUE
  ELSE LET ca == IndexOf(CodeUnitOrder, CharAt(a, 1))
           cb == IndexOf(CodeUnitOrder, CharAt(b, 1))
       IN IF ca < cb THEN TRUE
          ELSE IF ca > cb THEN FALSE
          ELSE StrLess(SubSeq(a, 2, Len(a)), SubSeq(b, 2, Len(b)))

(***************************************************************************)
(* JavaScript values that reach the version functions                      *)
(***************************************************************************)
JsNull == [t |-> "null", s |-> "", a |-> <<>>]

JsStr(str) == [t |-> "string", s |-> str, a |-> <<>>]

JsArr(arr) == [t |-> "array", s |-> "", a |-> arr]

\* the value is truthy / the value === str
Truthy(v) ==
  \/ v.t = "array"
  \/ (v.t = "string" /\ v.s # "")
  \/ (v.t = "number" /\ v.s # "0")

IsString(v, str) == v.t = "string" /\ v.s = str

\* a call that threw / a call that returned val
Threw == [threw |-> TRUE, val |-> <<>>]

Ret(v) == [threw |-> FALSE, val |-> v]

(***************************************************************************)
(* Version comparison (utils/version.ts)                                   *)
(***************************************************************************)
\* parseInt(part, 10) is a number and num.toString() === part
IsCanonicalInt(part) ==
  /\ Len(part) > 0
  /\ \A i \in 1..Len(part) : CharAt(part, i) \in Digits
  /\ (Len(part) = 1 \/ CharAt(part, 1) # "0")

RECURSIVE ParseInt(_, _)
ParseInt(part, acc) ==
  IF Len(part) = 0 THEN acc
  ELSE ParseInt(SubSeq(part, 2, Len(part)),
                acc * 10 + (IndexOf("0123456789", CharAt(part, 1)) - 1))

NumPart(n, str) == [num |-> TRUE, n |-> n, s |-> str]

StrPart(str) == [num |-> FALSE, n |-> 0, s |-> str]

\* the map over the parts: a canonical integer becomes a number, anything
\* else a lower-cased string
VersionParts(parts) ==
  [i \in 1..Len(parts) |->
     IF IsCanonicalInt(parts[i])
     THEN NumPart(ParseInt(parts[i], 0), parts[i])
     ELSE StrPart(ToLowerCase(parts[i]))]

\* parseVersion: an array (or any object without split) raises a TypeError
parseVersion(versionStr) ==
  IF ~Truthy(versionStr) \/ IsString(versionStr, "*") THEN Ret(<<>>)
  ELSE IF versionStr.t = "string"
       THEN Ret(VersionParts(SplitAny(versionStr.s, {".", "-", "_"}, 1, "", <<>>)))
       ELSE Threw

\* the loop with a string part always sorting before the other part
RECURSIVE ComparePartsFrom_StringsFirst(_, _, _)
ComparePartsFrom_StringsFirst(aParts, bParts, i) ==
  IF i > Max(Len(aParts), Len(bParts)) THEN 0
  ELSE LET aPart == IF i <= Len(aParts) THEN aParts[i] ELSE NumPart(0, "0")
           bPart == IF i <= Len(bParts) THEN bParts[i] ELSE NumPart(0, "0")
       IN IF aPart.num /\ bPart.num
          THEN IF aPart.n < bPart.n THEN -1
               ELSE IF aPart.n > bPart.n THEN 1
               ELSE ComparePartsFrom_StringsFirst(aParts, bParts, i + 1)
          ELSE IF aPart.s = bPart.s
               THEN ComparePartsFrom_StringsFirst(aParts, bParts, i + 1)
               ELSE -1

\* the loop of compareVersions from position i on
RECURSIVE ComparePartsFrom(_, _, _)
ComparePartsFrom(aParts, bParts, i) ==
  IF i > Max(Len(aParts), Len(bParts)) THEN 0
  ELSE LET aPart == IF i <= Len(aParts) THEN aParts[i] ELSE NumPart(0, "0")
           bPart == IF i <= Len(bParts) THEN bParts[i] ELSE NumPart(0, "0")
       IN IF aPart.num /\ bPart.num
          THEN IF aPart.n < bPart.n THEN -1
               ELSE IF aPart.n > bPart.n THEN 1
               ELSE ComparePartsFrom(aParts, bParts, i + 1)
          ELSE IF StrLess(aPart.s, bPart.s) THEN -1
               ELSE IF StrLess(bPart.s, aPart.s) THEN 1
               ELSE ComparePartsFrom(aParts, bParts, i + 1)

\* lines 347-368 once both versions went through parseVersion
CompareParsed(aParts, bParts) ==
  IF aParts.threw \/ bParts.threw THEN Threw
  ELSE Ret(ComparePartsFrom(aParts.val, bParts.val, 1))

compareVersions(a, b) == CompareParsed(parseVersion(a), parseVersion(b))

\* the bound checks with both bounds taken as inclusive
RangeChecks_AlwaysInclusive(checkStart, cmpStart, startInclusive, checkEnd, cmpEnd, endInclusive) ==
  IF checkStart /\ cmpStart.threw THEN Threw
  ELSE IF checkStart /\ cmpStart.val < 0 THEN Ret(FALSE)
  ELSE IF checkEnd /\ cmpEnd.threw THEN Threw
  ELSE IF checkEnd /\ cmpEnd.val > 0 THEN Ret(FALSE)
  ELSE Ret(TRUE)

\* lines 386-405: the two bound checks, given the comparisons they make
RangeChecks(checkStart, cmpStart, startInclusive, checkEnd, cmpEnd, endInclusive) ==
  IF checkStart /\ cmpStart.threw THEN Threw
  ELSE IF checkStart /\ (IF startInclusive THEN cmpStart.val < 0 ELSE cmpStart.val <= 0)
       THEN Ret(FALSE)
  ELSE IF checkEnd /\ cmpEnd.threw THEN Threw
  ELSE IF checkEnd /\ (IF endInclusive THEN cmpEnd.val > 0 ELSE cmpEnd.val >= 0)
       THEN Ret(FALSE)
  ELSE Ret(TRUE)

\* isVersionInRange; the bounds are strings or null
isVersionInRange(version, startVersion, startInclusive, endVersion, endInclusive) ==
  IF ~Truthy(version) \/ IsString(version, "*") THEN Ret(FALSE)
  ELSE RangeChecks(Truthy(startVersion) /\ ~IsString(startVersion, "*"),
                   compareVersions(version, startVersion), startInclusive,
                   Truthy(endVersion) /\ ~IsString(endVersion, "*"),
                   compareVersions(version, endVersion), endInclusive)

\* cpeMatchesPrefix: the first five fields, '*' of the stored CPE matches all
cpeMatchesPrefix(queryCpe, vulnCpe) ==
  LET queryParts == Split(queryCpe)
      vulnParts == Split(vulnCpe)
  IN \A i \in 1..Min(5, Min(Len(queryParts), Len(vulnParts))) :
       ~(queryParts[i] # vulnParts[i] /\ vulnParts[i] # "*")

getCpeVersion(cpe) ==
  LET parts == Split(cpe) IN IF Len(parts) > 5 THEN parts[6] ELSE "*"

(***************************************************************************)
(* Vulnerability records (types/vulnerability.ts)                          *)
(***************************************************************************)
VULN_ID == "vuln_id"

VERSION_IN_RANGE == "version_in_range"

PRODUCT_MATCH == "product_match"

GENERAL_PRODUCT_OK == "general_product_ok"

GENERAL_PRODUCT_UNCERTAIN == "general_product_uncertain"

SINGLE_HIGHER_VERSION == "single_higher_version"

\* the enumeration in the order of its declaration
MatchReasons ==
  <<VULN_ID, VERSION_IN_RANGE, PRODUCT_MATCH, GENERAL_PRODUCT_OK,
    GENERAL_PRODUCT_UNCERTAIN, SINGLE_HIGHER_VERSION>>

\* the ordinal used by merges: the position in the enumeration; the merge test
\* (PRODUCT_MATCH merged into VULN_ID ends as PRODUCT_MATCH with its cvss)
\* shows that a later member counts as the greater one
MatchReasonOrdinal(reason) ==
  CHOOSE i \in 1..Len(MatchReasons) : MatchReasons[i] = reason

\* compareMatchReasons(a, b) > 0
compareMatchReasons(a, b) == MatchReasonOrdinal(a) - MatchReasonOrdinal(b)

\* new Vulnerability({id, matchReason, matchSources, description, cvss, aliases})
Vulnerability(id, matchReason, matchSources, description, cvss, aliases) ==
  [id |-> id, matchReason |-> matchReason, matchSources |-> matchSources,
   description |-> description, cvss |-> cvss,
   aliases |-> IF Len(aliases) = 0 THEN <<id>> ELSE aliases,
   exploits |-> <<>>, epss |-> "", reportedPatchedBy |-> <<>>]

\* an incoming record that replaces whatever it is merged into
mergeWithVulnerability_IncomingWins(self, other) ==
  [self EXCEPT !.id = other.id, !.matchReason = other.matchReason,
               !.description = other.description, !.cvss = other.cvss,
               !.matchSources = SetAddAll(self.matchSources, other.matchSources),
               !.aliases = SetAddAll(self.aliases, other.aliases),
               !.exploits = SetAddAll(self.exploits, other.exploits),
               !.reportedPatchedBy =
                  SetAddAll(self.reportedPatchedBy, other.reportedPatchedBy)]

\* this.mergeWithVulnerability(other): the value of this afterwards
mergeWithVulnerability(self, other) ==
  LET wins == compareMatchReasons(other.matchReason, self.matchReason) > 0
  IN [self EXCEPT
        !.id = IF wins THEN other.id ELSE self.id,
        !.matchReason = IF wins THEN other.matchReason ELSE self.matchReason,
        !.description = IF wins THEN other.description ELSE self.description,
        !.cvss = IF wins THEN other.cvss ELSE self.cvss,
        !.matchSources = SetAddAll(self.matchSources, other.matchSources),
        !.aliases = SetAddAll(self.aliases, other.aliases),
        !.exploits = SetAddAll(self.exploits, other.exploits),
        !.reportedPatchedBy = SetAddAll(self.reportedPatchedBy, other.reportedPatchedBy)]

isPatched(vuln) == Len(vuln.reportedPatchedBy) > 0

\* vuln.toDict(): the serialised form with snake_case keys
toDict(vuln) ==
  [id |-> vuln.id, match_reason |-> vuln.matchReason,
   match_sources |-> vuln.matchSources, description |-> vuln.description,
   cvss |-> vuln.cvss, aliases |-> vuln.aliases, exploits |-> vuln.exploits,
   epss |-> vuln.epss, reported_patched_by |-> vuln.reportedPatchedBy]

(***************************************************************************)
(* Storage: the vulnerability database and the product database            *)
(***************************************************************************)
NoTable == [exists |-> FALSE, rows |-> <<>>]

Table(rows) == [exists |-> TRUE, rows |-> rows]

\* entries of an ordered map or rows of a table at the positions in keep
RECURSIVE RestrictFrom(_, _, _)
RestrictFrom(d, keep, i) ==
  IF i > Len(d) THEN <<>>
  ELSE (IF i \in keep THEN <<d[i]>> ELSE <<>>) \o RestrictFrom(d, keep, i + 1)

\* getDatabaseConnection: new Database(path) fails when the file is unusable
getDatabaseConnection(opens) == IF opens THEN Ret("open") ELSE Threw

(***************************************************************************)
(* CPE retrieval (utils/cpe_search.ts)                                     *)
(***************************************************************************)
\* CPE_SEARCH_THRESHOLD and CPE_SEARCH_THRESHOLD_ALT in hundredths
CPE_SEARCH_THRESHOLD == 68

CPE_SEARCH_THRESHOLD_ALT == 25

\* MATCH_CPE_23_RE = /cpe:2\.3:[aoh](:[^:]+){2,10}/ matched at position i
MatchCpe23At(s, i) ==
  /\ i + 8 <= Len(s)
  /\ SubSeq(s, i, i + 7) = "cpe:2.3:"
  /\ CharAt(s, i + 8) \in {"a", "o", "h"}
  /\ LET rest == Split(SubSeq(s, i + 9, Len(s)))
     IN Len(rest) >= 3 /\ rest[1] = "" /\ rest[2] # "" /\ rest[3] # ""

\* MATCH_CPE_23_RE.test(s)
MATCH_CPE_23_RE(s) == \E i \in 1..Len(s) : MatchCpe23At(s, i)

\* _searchCPEs for one query: the ranked [cpe, sim] list of the candidates that
\* terms_to_entries yields for the query's words; the similarity of a candidate
\* is the stored score of the index.  The cpe_entries query is not guarded.
RankEntries(entries, cpeEntriesReadable, threshold) ==
  IF Len(entries) = 0 THEN Ret(<<>>)
  ELSE IF ~cpeEntriesReadable THEN Threw
  ELSE Ret(RestrictFrom(entries,
                        {i \in 1..Len(entries) : ~(entries[i].sim < threshold)}, 1))

searchCPEs(queryRaw, productDb, threshold) ==
  RankEntries(GetOrEmpty(productDb.terms_to_entries, ToLowerCase(queryRaw)),
              productDb.cpe_entries, threshold)

(***************************************************************************)
(* searchVulnsBasic and the enrichment steps (core.ts)                     *)
(***************************************************************************)
DigitStr(d) == CharAt("0123456789", d + 1)

RECURSIVE NatToStr(_)
NatToStr(n) == IF n < 10 THEN DigitStr(n) ELSE NatToStr(n \div 10) \o DigitStr(n % 10)

\* row.base_score?.toString() || '-1.0' for a score in tenths (-1 stands for NULL)
CvssOf(base_score) ==
  IF base_score < 0 THEN "-1.0"
  ELSE IF base_score % 10 = 0 THEN NatToStr(base_score \div 10)
  ELSE NatToStr(base_score \div 10) \o "." \o DigitStr(base_score % 10)

\* /CVE-\d{4}-\d+/i matched at position i
CveAt(s, i) ==
  /\ i + 9 <= Len(s)
  /\ ToUpperCase(SubSeq(s, i, i + 3)) = "CVE-"
  /\ \A j \in (i + 4)..(i + 7) : CharAt(s, j) \in Digits
  /\ CharAt(s, i + 8) = "-"
  /\ CharAt(s, i + 9) \in Digits

\* singleQuery.match(cvePattern)[0], "" when there is no match
cveMatch(s) ==
  IF \E i \in 1..Len(s) : CveAt(s, i)
  THEN LET i == CHOOSE k \in 1..Len(s) : CveAt(s, k) /\ \A j \in 1..(k - 1) : ~CveAt(s, j)
       IN SubSeq(s, i, RunEnd(s, i + 9, Digits))
  ELSE ""

GhsaChars == Letters \cup Digits \cup {"-"}

\* /GHSA-[a-z0-9-]+/i matched at position i
GhsaAt(s, i) ==
  /\ i + 5 <= Len(s)
  /\ ToUpperCase(SubSeq(s, i, i + 4)) = "GHSA-"
  /\ CharAt(s, i + 5) \in GhsaChars

\* singleQuery.match(ghsaPattern)[0], "" when there is no match
ghsaMatch(s) ==
  IF \E i \in 1..Len(s) : GhsaAt(s, i)
  THEN LET i == CHOOSE k \in 1..Len(s) : GhsaAt(s, k) /\ \A j \in 1..(k - 1) : ~GhsaAt(s, j)
       IN SubSeq(s, i, RunEnd(s, i + 5, GhsaChars))
  ELSE ""

NoMatch == [matches |-> FALSE, matchReason |-> PRODUCT_MATCH]

Match(reason) == [matches |-> TRUE, matchReason |-> reason]

\* lines 958-967
RangeMatch(inRange) ==
  IF inRange.threw THEN Threw
  ELSE IF inRange.val THEN Ret(Match(VERSION_IN_RANGE)) ELSE Ret(NoMatch)

\* the matcher without the range branch and without the uncertain reason
MatchVersions_ExactOnly(queryVersion, vulnCpeVersion, row) ==
  IF vulnCpeVersion = "*" THEN Ret(Match(GENERAL_PRODUCT_OK))
  ELSE IF vulnCpeVersion = queryVersion THEN Ret(Match(PRODUCT_MATCH))
  ELSE Ret(NoMatch)

\* lines 948-983 for the versions of the query CPE and of the row's CPE
MatchVersions(queryVersion, vulnCpeVersion, row) ==
  IF queryVersion # "" /\ queryVersion # "*"
  THEN IF Truthy(row.cpe_version_start) \/ Truthy(row.cpe_version_end)
       THEN RangeMatch(isVersionInRange(JsStr(queryVersion), row.cpe_version_start,
                                        row.is_cpe_version_start_including = 1,
                                        row.cpe_version_end,
                                        row.is_cpe_version_end_including = 1))
       ELSE IF vulnCpeVersion = "*" THEN Ret(Match(GENERAL_PRODUCT_UNCERTAIN))
       ELSE IF vulnCpeVersion = queryVersion THEN Ret(Match(PRODUCT_MATCH))
       ELSE Ret(NoMatch)
  ELSE IF vulnCpeVersion = "*" THEN Ret(Match(GENERAL_PRODUCT_OK)) ELSE Ret(NoMatch)

\* lines 948-983: does the row match the query CPE, and with which reason
MatchRow(cpe, row) == MatchVersions(getCpeVersion(cpe), getCpeVersion(row.cpe), row)

\* the nvd row of a CVE
NvdRow(vulnDb, cveId) ==
  vulnDb.nvd.rows[CHOOSE i \in 1..Len(vulnDb.nvd.rows) : vulnDb.nvd.rows[i].cve_id = cveId]

HasNvdRow(vulnDb, cveId) ==
  \E i \in 1..Len(vulnDb.nvd.rows) : vulnDb.nvd.rows[i].cve_id = cveId

\* lines 931-940: nvd JOIN nvd_cpe WHERE nc.cpe LIKE cpePrefix%
JoinedRows(vulnDb, cpePrefix) ==
  RestrictFrom(vulnDb.nvd_cpe.rows,
               {i \in 1..Len(vulnDb.nvd_cpe.rows) :
                  /\ StartsWith(vulnDb.nvd_cpe.rows[i].cpe, cpePrefix)
                  /\ HasNvdRow(vulnDb, vulnDb.nvd_cpe.rows[i].cve_id)}, 1)

\* lines 986-998: the record of a joined row
RowVulnerability(cveId, nvd, matchReason) ==
  Vulnerability(cveId, matchReason, <<"nvd">>, nvd.description, CvssOf(nvd.base_score),
                <<>>)

\* lines 1000-1005
AddOrMerge(vulns, vuln) ==
  IF Has(vulns, vuln.id)
  THEN Put(vulns, vuln.id, mergeWithVulnerability(Get(vulns, vuln.id), vuln))
  ELSE Put(vulns, vuln.id, vuln)

\* lines 942-1007: the rows found for one CPE; an exception ends the loop
RECURSIVE CpeRowsLoop(_, _, _, _, _)
RECURSIVE RowStep(_, _, _, _, _, _)
RowStep(vulns, cpe, rows, vulnDb, i, m) ==
  IF m.threw THEN vulns
  ELSE IF ~m.val.matches THEN CpeRowsLoop(vulns, cpe, rows, vulnDb, i + 1)
  ELSE CpeRowsLoop(AddOrMerge(vulns,
                              RowVulnerability(rows[i].cve_id,
                                               NvdRow(vulnDb, rows[i].cve_id),
                                               m.val.matchReason)),
                   cpe, rows, vulnDb, i + 1)

CpeRowsLoop(vulns, cpe, rows, vulnDb, i) ==
  IF i > Len(rows) THEN vulns
  ELSE IF ~cpeMatchesPrefix(cpe, rows[i].cpe) THEN CpeRowsLoop(vulns, cpe, rows, vulnDb, i + 1)
  ELSE RowStep(vulns, cpe, rows, vulnDb, i, MatchRow(cpe, rows[i]))

\* lines 924-1012: every CPE of productIds.cpe; a failing query skips the CPE
RECURSIVE CpeLoop(_, _, _, _)
CpeLoop(vulns, cpes, vulnDb, i) ==
  IF i > Len(cpes) THEN vulns
  ELSE CpeLoop(IF vulnDb.nvd.exists /\ vulnDb.nvd_cpe.exists
               THEN CpeRowsLoop(vulns, cpes[i],
                                JoinedRows(vulnDb, ProductPrefix(cpes[i])), vulnDb, 1)
               ELSE vulns,
               cpes, vulnDb, i + 1)

HasGhsaRow(vulnDb, ghsaId) ==
  \E i \in 1..Len(vulnDb.ghsa.rows) : vulnDb.ghsa.rows[i].ghsa_id = ghsaId

GhsaRow(vulnDb, ghsaId) ==
  vulnDb.ghsa.rows[CHOOSE i \in 1..Len(vulnDb.ghsa.rows) :
                      vulnDb.ghsa.rows[i].ghsa_id = ghsaId]

\* lines 1018-1025 and 1041-1053: the record of an identifier row
IdVulnerability(id, source, row) ==
  Vulnerability(id, VULN_ID, <<source>>, row.description, CvssOf(row.base_score), <<>>)

\* lines 1026-1054: the CVE identifier found in the query, "" for none
AddCve(vulns, cveId, vulnDb) ==
  IF cveId # "" /\ vulnDb.nvd.exists /\ HasNvdRow(vulnDb, ToUpperCase(cveId))
  THEN Put(vulns, NvdRow(vulnDb, ToUpperCase(cveId)).cve_id,
           IdVulnerability(NvdRow(vulnDb, ToUpperCase(cveId)).cve_id, "nvd",
                           NvdRow(vulnDb, ToUpperCase(cveId))))
  ELSE vulns

\* lines 1056-1084: the GHSA identifier found in the query, "" for none
AddGhsa(vulns, ghsaId, vulnDb) ==
  IF ghsaId # "" /\ vulnDb.ghsa.exists /\ HasGhsaRow(vulnDb, ghsaId)
  THEN Put(vulns, GhsaRow(vulnDb, ghsaId).ghsa_id,
           IdVulnerability(GhsaRow(vulnDb, ghsaId).ghsa_id, "ghsa",
                           GhsaRow(vulnDb, ghsaId)))
  ELSE vulns

\* lines 1017-1085: identifiers in the comma-separated query
RECURSIVE IdLoop(_, _, _, _)
IdLoop(vulns, queries, vulnDb, i) ==
  IF i > Len(queries) THEN vulns
  ELSE IdLoop(AddGhsa(AddCve(vulns, cveMatch(Trim(queries[i])), vulnDb),
                      ghsaMatch(Trim(queries[i])), vulnDb),
              queries, vulnDb, i + 1)

\* lines 914-1088
searchVulnsBasic(queryStr, productIdsCpe, vulnDb) ==
  IdLoop(CpeLoop(<<>>, productIdsCpe, vulnDb, 1),
         SplitAcc(queryStr, ",", 1, "", <<>>), vulnDb, 1)

\* the elements of a list that start with prefix
FilterPrefix(list, prefix) ==
  RestrictFrom(list, {i \in 1..Len(list) : StartsWith(list[i], prefix)}, 1)

\* the CVE identifiers of a record: its key and its aliases
CveIdsOf(vulnId, vuln) ==
  SetAddAll(FilterPrefix(<<vulnId>>, "CVE-"), FilterPrefix(vuln.aliases, "CVE-"))

\* lines 855-909: the exploit references stored for the record's CVEs (the three
\* exploit tables are one table here; a missing table adds nothing)
addExploitInfo(vulns, vulnDb) ==
  [k \in 1..Len(vulns) |->
     LET cveIds == CveIdsOf(vulns[k].k, vulns[k].v)
         refs == Flatten([c \in 1..Len(cveIds) |->
                   LET hit == RestrictFrom(vulnDb.exploits.rows,
                                {i \in 1..Len(vulnDb.exploits.rows) :
                                   vulnDb.exploits.rows[i].cve_id = cveIds[c]}, 1)
                   IN [i \in 1..Len(hit) |-> hit[i].exploit_ref]])
     IN [k |-> vulns[k].k,
         v |-> [vulns[k].v EXCEPT !.exploits = SetAddAll(@, refs)]]]

\* (maxEpss * 100).toFixed(2) + '%' for a probability given in 1/10000
FormatEpss(epss) ==
  NatToStr(epss \div 100) \o "." \o DigitStr((epss % 100) \div 10)
    \o DigitStr(epss % 10) \o "%"

\* addEPSSScores: the highest EPSS of the record's CVEs
addEPSSScores(vulns, vulnDb) ==
  IF ~vulnDb.cve_epss.exists THEN vulns
  ELSE [k \in 1..Len(vulns) |->
          LET cveIds == Range(CveIdsOf(vulns[k].k, vulns[k].v))
              scores == {vulnDb.cve_epss.rows[i].epss :
                           i \in {j \in 1..Len(vulnDb.cve_epss.rows) :
                                    vulnDb.cve_epss.rows[j].cve_id \in cveIds}}
          IN [k |-> vulns[k].k,
              v |-> IF scores = {} THEN vulns[k].v
                    ELSE [vulns[k].v EXCEPT !.epss =
                            FormatEpss(CHOOSE m \in scores : \A x \in scores : x <= m)]]]

\* the filter that drops every general match once the flag is set
FilterByFlags_DropGeneral(vulns, ignoreGeneralProductVulns, includeSingleVersionVulns) ==
  RestrictFrom(vulns,
    {i \in 1..Len(vulns) :
       /\ ~(ignoreGeneralProductVulns
            /\ vulns[i].v.matchReason \notin {VULN_ID, VERSION_IN_RANGE})
       /\ ~(~includeSingleVersionVulns
            /\ vulns[i].v.matchReason = SINGLE_HIGHER_VERSION)}, 1)

\* lines 798-813: the two match-reason flags
FilterByFlags(vulns, ignoreGeneralProductVulns, includeSingleVersionVulns) ==
  RestrictFrom(vulns,
    {i \in 1..Len(vulns) :
       /\ ~(ignoreGeneralProductVulns
            /\ vulns[i].v.matchReason = GENERAL_PRODUCT_UNCERTAIN)
       /\ ~(~includeSingleVersionVulns
            /\ vulns[i].v.matchReason = SINGLE_HIGHER_VERSION)}, 1)

\* lines 816-827
RemovePatched(vulns, includePatched) ==
  IF includePatched THEN vulns
  ELSE RestrictFrom(vulns, {i \in 1..Len(vulns) : ~isPatched(vulns[i].v)}, 1)

(***************************************************************************)
(* End-of-life status (utils/eol.ts)                                       *)
(***************************************************************************)
NoStatus == [status |-> "", latest |-> "", ref |-> ""]

\* releaseEol && (releaseEol === true || now >= releaseEol); dates are ISO days
EolReached(eol_info, now) ==
  IF eol_info = "true" THEN TRUE
  ELSE IF eol_info = "" \/ eol_info = "false" THEN FALSE
  ELSE ~StrLess(now, eol_info)

EolStatus(s, latest, eold_id) ==
  Ret([status |-> s, latest |-> latest, ref |-> "https://endoflife.date/" \o eold_id])

\* lines 244-277 for one release: the status this release decides, NoStatus
\* when the next release has to be looked at
ReleaseStatus(queryVersion, versionComparison, startComparison, eol, isLast, latest, eold_id) ==
  IF ~Truthy(queryVersion)
  THEN IF eol THEN EolStatus("eol", latest, eold_id) ELSE EolStatus("N/A", latest, eold_id)
  ELSE IF versionComparison.threw THEN Threw
  ELSE IF versionComparison.val >= 0
       THEN IF eol THEN EolStatus("eol", latest, eold_id)
            ELSE EolStatus("current", latest, eold_id)
  ELSE IF startComparison.threw THEN Threw
  ELSE IF \/ (startComparison.val >= 0 /\ versionComparison.val < 0)
          \/ (isLast /\ startComparison.val <= 0)
       THEN IF eol THEN EolStatus("eol", latest, eold_id)
            ELSE EolStatus("outdated", latest, eold_id)
  ELSE Ret(NoStatus)

\* lines 221-283: the releases of one product, newest first; queryVersion is
\* the parsed version (an array), as are the release bounds
RECURSIVE ReleaseLoop(_, _, _, _, _)
RECURSIVE ReleaseNext(_, _, _, _, _, _)
ReleaseNext(eolReleases, queryVersion, now, latest, i, status) ==
  IF status.threw THEN Threw
  ELSE IF status.val # NoStatus THEN status
  ELSE ReleaseLoop(eolReleases, queryVersion, now, latest, i + 1)

ReleaseLoop(eolReleases, queryVersion, now, latestSoFar, i) ==
  IF i > Len(eolReleases) THEN Ret(NoStatus)
  ELSE ReleaseNext(eolReleases, queryVersion, now,
         IF latestSoFar = "" THEN eolReleases[i].version_latest ELSE latestSoFar, i,
         ReleaseStatus(queryVersion,
           compareVersions(queryVersion,
                           JsArr(parseVersion(JsStr(eolReleases[i].version_latest)).val)),
           compareVersions(queryVersion,
                           JsArr(parseVersion(JsStr(eolReleases[i].version_start)).val)),
           EolReached(eolReleases[i].eol_info, now), i = Len(eolReleases),
           IF latestSoFar = "" THEN eolReleases[i].version_latest ELSE latestSoFar,
           eolReleases[i].eold_id))

\* line 197-200: the version field of the CPE, parsed unless it is a wildcard
QueryVersionOf(cpeSplit) ==
  IF Len(cpeSplit) > 5 /\ cpeSplit[6] # "" /\ cpeSplit[6] # "*"
  THEN JsArr(parseVersion(JsStr(cpeSplit[6])).val)
  ELSE JsNull

\* lines 204-212
ReleasesOf(rows, cpePrefix) ==
  RestrictFrom(rows, {j \in 1..Len(rows) : rows[j].cpe_prefix = cpePrefix}, 1)

\* lines 192-284: the first product with a status decides
RECURSIVE EolLoop(_, _, _)
RECURSIVE EolNext(_, _, _, _, _)
EolNext(cpes, vulnDb, i, eolReleases, status) ==
  IF Len(eolReleases) = 0 THEN EolLoop(cpes, vulnDb, i + 1)
  ELSE IF status.threw THEN Threw
  ELSE IF status.val # NoStatus THEN status
  ELSE EolLoop(cpes, vulnDb, i + 1)

EolLoop(cpes, vulnDb, i) ==
  IF i > Len(cpes) THEN Ret(NoStatus)
  ELSE EolNext(cpes, vulnDb, i,
               ReleasesOf(vulnDb.eol_date_data.rows, ProductPrefix(cpes[i])),
               ReleaseLoop(ReleasesOf(vulnDb.eol_date_data.rows, ProductPrefix(cpes[i])),
                           QueryVersionOf(Split(cpes[i])), vulnDb.now, "", 1))

\* addEOLStatus(results, vulnDb): the version_status it sets, or the exception
addEOLStatus(productIdsCpe, vulnDb) ==
  IF ~vulnDb.eol_date_data.exists THEN Ret(NoStatus)
  ELSE EolLoop(productIdsCpe, vulnDb, 1)

(***************************************************************************)
(* search_cpes: the candidates built from the retrieved CPEs               *)
(***************************************************************************)
\* \w
WordChars == Letters \cup Digits \cup {"_"}

\* [\da-zA-Z\.]
VersionChars == Letters \cup Digits \cup {"."}

\* [\+\-\.\_\~ ]
VersionSeparators == {"+", "-", ".", "_", "~", " "}

AllCharsIn(s, from, to, cls) == \A k \in from..to : CharAt(s, k) \in cls

\* String.prototype.includes
StrIncludes(s, sub) ==
  \E i \in 1..(Len(s) - Len(sub) + 1) : SubSeq(s, i, i + Len(sub) - 1) = sub

EndsWith(s, suffix) ==
  Len(s) >= Len(suffix) /\ SubSeq(s, Len(s) - Len(suffix) + 1, Len(s)) = suffix

\* replace(/x/g, by) for a literal x
RECURSIVE ReplaceAll(_, _, _)
ReplaceAll(s, x, by) ==
  IF Len(s) = 0 \/ Len(x) = 0 THEN s
  ELSE IF StartsWith(s, x) THEN by \o ReplaceAll(SubSeq(s, Len(x) + 1, Len(s)), x, by)
  ELSE CharAt(s, 1) \o ReplaceAll(SubSeq(s, 2, Len(s)), x, by)

\* ([\+\-\.\_\~ ][\da-zA-Z\.]+){0,n} matches s from pos up to e (exclusive)
RECURSIVE GroupsMatch(_, _, _, _)
GroupsMatch(s, pos, e, n) ==
  \/ pos = e
  \/ /\ n > 0
     /\ pos < e
     /\ CharAt(s, pos) \in VersionSeparators
     /\ \E q \in (pos + 2)..e :
          AllCharsIn(s, pos + 1, q - 1, VersionChars) /\ GroupsMatch(s, q, e, n - 1)

\* \b(\d[\da-zA-Z\.]{0,6})(...){0,4} matches s from i up to e (exclusive)
GroupOneMatches(s, i, e) ==
  /\ CharAt(s, i) \in Digits
  /\ i = 1 \/ CharAt(s, i - 1) \notin WordChars
  /\ \E h \in (i + 1)..Min(i + 7, e) :
       AllCharsIn(s, i + 1, h - 1, VersionChars) /\ GroupsMatch(s, h, e, 4)

\* [^\w\n]*$ from position e
TailMatches(s, e) == \A k \in e..Len(s) : CharAt(s, k) \notin WordChars /\ CharAt(s, k) # "\n"

\* the ends of group 1 of VERSION_MATCH_CPE_CREATION_RE when it starts at i
VersionEnds(s, i) ==
  {e \in (i + 1)..(Len(s) + 1) : TailMatches(s, e) /\ GroupOneMatches(s, i, e)}

NoVersion == [matched |-> FALSE, group |-> ""]

\* query.match(VERSION_MATCH_CPE_CREATION_RE): group 1 of the leftmost match.
\* In a query that ends in a word character the match ends with the query;
\* before trailing punctuation the quantifiers take the longest group.
VERSION_MATCH_CPE_CREATION_RE(s) ==
  LET starts == {i \in 1..Len(s) : VersionEnds(s, i) # {}}
  IN IF starts = {} THEN NoVersion
     ELSE LET i == CHOOSE x \in starts : \A y \in starts : x <= y
              e == CHOOSE x \in VersionEnds(s, i) : \A y \in VersionEnds(s, i) : y <= x
          IN [matched |-> TRUE, group |-> SubSeq(s, i, e - 1)]

\* lines 117-133
getPossibleVersionsInQuery(queryStr) ==
  LET versionStrMatch == VERSION_MATCH_CPE_CREATION_RE(queryStr)
      fullVersionStr == Trim(versionStrMatch.group)
      versionParts ==
        <<fullVersionStr>> \o SplitAny(fullVersionStr, {"+", "-", "_", "~", " "}, 1, "", <<>>)
  IN IF ~versionStrMatch.matched THEN <<>>
     ELSE IF versionParts[1] = versionParts[2] THEN Tail(versionParts)
     ELSE versionParts

\* CPE_CREATION_DEL_SYMBOLS_RE
CPE_CREATION_DEL_SYMBOLS ==
  {"]", "\"", "|", "{", ">", ")", "/", "`", "<", "#", "}", ",", "[", ":", "(", "=",
   ";", "^", "'", "%"}

RECURSIVE ReplaceChars(_, _, _)
ReplaceChars(s, cls, by) ==
  IF Len(s) = 0 THEN ""
  ELSE (IF CharAt(s, 1) \in cls THEN by ELSE CharAt(s, 1))
         \o ReplaceChars(SubSeq(s, 2, Len(s)), cls, by)

\* lines 742-743
CpeCreationQuery(trimmedQuery) ==
  ReplaceAll(ReplaceChars(trimmedQuery, CPE_CREATION_DEL_SYMBOLS, " "), "  ", " ")

\* cpeParts[i] = value for a 0-based i; a hole prints as an empty field
SetField(cpeParts, i, value) ==
  [k \in 1..Max(Len(cpeParts), i + 1) |->
     IF k = i + 1 THEN value ELSE IF k <= Len(cpeParts) THEN cpeParts[k] ELSE ""]

\* lines 576-582: the version parts put into subsequent CPE fields
SubsequentFieldCpes(cpeParts, versionParts) ==
  IF Len(versionParts) > 2
  THEN [i \in 1..(Len(versionParts) - 1) |->
          Join(SubSeq(cpeParts, 1, Min(5, Len(cpeParts)))
                 \o SubSeq(versionParts, 2, i + 1)
                 \o SliceFrom(cpeParts, 5 + i), ":")]
  ELSE <<>>

\* VERSION_SPLIT_DIFF_CHARSETS_RE = /(?<=\d)(?=[^\d.])/: the 0-based index of
\* the first character that follows a digit and is neither a digit nor a dot
SplitIndexes(s) ==
  {k \in 1..(Len(s) - 1) : CharAt(s, k) \in Digits /\ CharAt(s, k + 1) \notin Digits \cup {"."}}

RECURSIVE StripLeadingNonAlnum(_)
StripLeadingNonAlnum(s) ==
  IF Len(s) > 0 /\ CharAt(s, 1) \notin Letters \cup Digits
  THEN StripLeadingNonAlnum(SubSeq(s, 2, Len(s))) ELSE s

\* lines 585-603: a version without a separator between its character groups
ComplexVersionCpes(cpeParts, versionParts) ==
  IF Len(versionParts) = 1 /\ SplitIndexes(versionParts[1]) # {}
  THEN LET splitIdx == CHOOSE k \in SplitIndexes(versionParts[1]) :
                         \A j \in SplitIndexes(versionParts[1]) : k <= j
           verPart1 == SubSeq(versionParts[1], 1, splitIdx)
           verPart2 == StripLeadingNonAlnum(
                         SubSeq(versionParts[1], splitIdx + 1, Len(versionParts[1])))
       IN IF verPart2 # ""
          THEN <<Join(SetField(SetField(cpeParts, 5, verPart1), 6, verPart2), ":")>>
          ELSE <<>>
  ELSE <<>>

\* lines 606-614
VersionPartInCpe(cpeParts, versionParts) ==
  \E i \in 0..(Len(versionParts) - 3) :
    Includes(SliceFrom(cpeParts, 6 + i), versionParts[i + 3])

\* lines 617-621
FullVersionCpes(cpeParts, versionParts) ==
  IF Len(versionParts) > 0 /\ ~VersionPartInCpe(cpeParts, versionParts)
  THEN <<Join(SetField(cpeParts, 5, ReplaceAll(versionParts[1], " ", "_")), ":")>>
  ELSE <<>>

CpesFromParts(cpeParts, versionParts) ==
  SubsequentFieldCpes(cpeParts, versionParts)
    \o ComplexVersionCpes(cpeParts, versionParts)
    \o FullVersionCpes(cpeParts, versionParts)

\* lines 571-624
createCpesFromBaseCpeAndQuery(cpe, queryStr) ==
  CpesFromParts(Split(cpe), getPossibleVersionsInQuery(queryStr))

\* lines 629-632
isVersionlessQuery(queryStr) == ~VERSION_MATCH_CPE_CREATION_RE(queryStr).matched

Stars(n) == [i \in 1..n |-> "*"]

NoCpe == [some |-> FALSE, cpe |-> ""]

SomeCpe(cpe) == [some |-> TRUE, cpe |-> cpe]

\* lines 637-644: null unless the query is versionless
createBaseCpeIfVersionlessQuery(cpe, queryStr) ==
  IF isVersionlessQuery(queryStr)
  THEN SomeCpe(Join(SubSeq(Split(cpe), 1, Min(5, Len(Split(cpe)))) \o Stars(8), ":"))
  ELSE NoCpe

HasDigit(s) == \E k \in 1..Len(s) : CharAt(s, k) \in Digits

RECURSIVE SkipNonDigits(_, _)
SkipNonDigits(s, idx) ==
  IF idx <= Len(s) /\ CharAt(s, idx) \notin Digits THEN SkipNonDigits(s, idx + 1) ELSE idx

\* lines 669-677: idxPosVer when the loop ends (1-based positions)
RECURSIVE ReflectLoop(_, _, _, _)
ReflectLoop(possibleVersion, checkStr, idxPosVer, idxCheckStr) ==
  IF idxPosVer <= Len(possibleVersion) /\ idxCheckStr <= Len(checkStr)
  THEN LET skipped == SkipNonDigits(possibleVersion, idxPosVer)
       IN ReflectLoop(possibleVersion, checkStr,
                      IF skipped <= Len(possibleVersion)
                         /\ CharAt(possibleVersion, skipped) = CharAt(checkStr, idxCheckStr)
                      THEN skipped + 1 ELSE skipped,
                      idxCheckStr + 1)
  ELSE idxPosVer

\* lines 659-688
CpeHasMatchingVersion(checkStr, versionsInQuery) ==
  \E i \in 1..Len(versionsInQuery) :
    /\ StrIncludes(versionsInQuery[i], ".")
    /\ ReflectLoop(versionsInQuery[i], checkStr, 1, 1) = Len(versionsInQuery[i]) + 1

\* lines 691-699
SomeTermInCpe(cpe, queryStr, versionsInQuery) ==
  LET terms == SplitAny(queryStr, {" "}, 1, "", <<>>)
  IN \E i \in 1..Len(terms) :
       ~Includes(versionsInQuery, terms[i]) /\ StrIncludes(cpe, ToLowerCase(terms[i]))

BadMatch(cpe, checkStr, queryStr, versionsInQuery) ==
  \/ HasDigit(queryStr) /\ ~HasDigit(checkStr)
  \/ Len(versionsInQuery) > 0 /\ ~CpeHasMatchingVersion(checkStr, versionsInQuery)
  \/ ~SomeTermInCpe(cpe, queryStr, versionsInQuery)

\* lines 649-702
cpeMatchesQuery(cpe, queryStr) ==
  ~BadMatch(cpe, SubSeq(cpe, 9, Len(cpe)), queryStr, getPossibleVersionsInQuery(queryStr))

Entry(cpe, sim) == [cpe |-> cpe, sim |-> sim]

\* list.some(([other]) => isCpeEqual(cpe, other))
SomeEqual(list, cpe) == \E i \in 1..Len(list) : isCpeEqual(cpe, list[i].cpe)

\* lines 749-757: the CPEs created for one retrieved CPE
RECURSIVE AddNewCpes(_, _, _, _)
AddNewCpes(potCpes, cpes, newCpes, sim) ==
  IF Len(newCpes) = 0 THEN potCpes
  ELSE AddNewCpes(IF SomeEqual(cpes, Head(newCpes)) \/ SomeEqual(potCpes, Head(newCpes))
                  THEN potCpes
                  ELSE Append(potCpes, Entry(Head(newCpes), -1 * sim)),
                  cpes, Tail(newCpes), sim)

\* lines 759-761
AddRetrieved(potCpes, entry) ==
  IF SomeEqual(potCpes, entry.cpe) THEN potCpes ELSE Append(potCpes, entry)

\* lines 746-762
RECURSIVE RelatedCpes(_, _, _, _)
RelatedCpes(cpes, cpeCreationQuery, i, potCpes) ==
  IF i > Len(cpes) THEN potCpes
  ELSE RelatedCpes(cpes, cpeCreationQuery, i + 1,
         AddRetrieved(AddNewCpes(potCpes, cpes,
                                 createCpesFromBaseCpeAndQuery(cpes[i].cpe, cpeCreationQuery),
                                 cpes[i].sim),
                      cpes[i]))

\* lines 765-777: [[baseCpe, -sim], newIdx] for the base CPEs to insert
RECURSIVE VersionlessInserts(_, _, _, _)
VersionlessInserts(potCpes, cpeCreationQuery, i, inserts) ==
  IF i > Len(potCpes) THEN inserts
  ELSE LET baseCpe == createBaseCpeIfVersionlessQuery(potCpes[i].cpe, cpeCreationQuery)
       IN VersionlessInserts(potCpes, cpeCreationQuery, i + 1,
            IF /\ baseCpe.some
               /\ ~SomeEqual(potCpes, baseCpe.cpe)
               /\ ~\E k \in 1..Len(inserts) : isCpeEqual(baseCpe.cpe, inserts[k].entry.cpe)
            THEN Append(inserts, [entry |-> Entry(baseCpe.cpe, -1 * potCpes[i].sim),
                                  idx |-> i - 1])
            ELSE inserts)

\* potCpes.splice(idx, 0, entry)
Splice(list, idx, entry) ==
  SubSeq(list, 1, Min(idx, Len(list))) \o <<entry>> \o SliceFrom(list, idx)

\* lines 779-781
RECURSIVE ApplyInserts(_, _)
ApplyInserts(potCpes, inserts) ==
  IF Len(inserts) = 0 THEN potCpes
  ELSE ApplyInserts(Splice(potCpes, Head(inserts).idx, Head(inserts).entry), Tail(inserts))

\* lines 745-781: potCpes as it stands before the sanity filter
BuildPotCpes(cpes, cpeCreationQuery) ==
  LET related == RelatedCpes(cpes, cpeCreationQuery, 1, <<>>)
  IN ApplyInserts(related, VersionlessInserts(related, cpeCreationQuery, 1, <<>>))

SearchResult(cpes, pot_cpes) == [cpes |-> cpes, pot_cpes |-> pot_cpes]

\* lines 792-795: potential CPEs whose vendor or product occurs in the query
QueryWordCpes(potCpes, trimmedQuery) ==
  RestrictFrom(potCpes,
               {i \in 1..Len(potCpes) :
                  \E w \in Range(SubSeq(Split(potCpes[i].cpe), 4,
                                        Min(5, Len(Split(potCpes[i].cpe))))) :
                    StrIncludes(ToLowerCase(trimmedQuery), ToLowerCase(w))}, 1)

\* lines 788-797: some retrieved CPE was filtered out
BreakEarly(cpes, potCpes, trimmedQuery, finalThreshold) ==
  IF Len(cpes) > 0 /\ cpes[1].sim > finalThreshold
  THEN SearchResult(cpes, potCpes)
  ELSE SearchResult(<<>>, QueryWordCpes(potCpes, trimmedQuery))

FieldOrEmpty(cpe, i) == IF Len(Split(cpe)) > i THEN Split(cpe)[i + 1] ELSE ""

\* lines 801-804: a versionless query whose best CPE has a version
VersionlessWithVersionedCpe(cpes, trimmedQuery) ==
  /\ FieldOrEmpty(cpes[1].cpe, 5) \notin {"", "*", "-"}
  /\ createBaseCpeIfVersionlessQuery(cpes[1].cpe, trimmedQuery).some

\* lines 805-808
VersionlessPotCpes(potCpes) ==
  RestrictFrom(potCpes,
               {i \in 1..Len(potCpes) : FieldOrEmpty(potCpes[i].cpe, 5) \in {"", "*", "-"}}, 1)

\* the final check without the threshold
FinalAccept_KeepAll(cpes, potCpes, finalThreshold) == SearchResult(cpes, potCpes)

\* lines 813-815 and 820
FinalAccept(cpes, potCpes, finalThreshold) ==
  IF Len(cpes) > 0 /\ cpes[1].sim < finalThreshold
  THEN SearchResult(<<>>, potCpes)
  ELSE SearchResult(cpes, potCpes)

\* lines 784-815 for the filtered list
CheckMatches(cpes, matching, potCpes, trimmedQuery, finalThreshold) ==
  IF Len(matching) # Len(cpes)
  THEN BreakEarly(matching, potCpes, trimmedQuery, finalThreshold)
  ELSE IF VersionlessWithVersionedCpe(matching, trimmedQuery)
  THEN SearchResult(<<>>, VersionlessPotCpes(potCpes))
  ELSE FinalAccept(matching, potCpes, finalThreshold)

\* lines 734-820 for the results of _searchCPEs
AcceptRetrieved(cpes, trimmedQuery, cpeCreationQuery, finalThreshold) ==
  IF Len(cpes) = 0 THEN SearchResult(<<>>, <<>>)
  ELSE CheckMatches(cpes,
                    RestrictFrom(cpes, {i \in 1..Len(cpes) :
                                          cpeMatchesQuery(cpes[i].cpe, cpeCreationQuery)}, 1),
                    BuildPotCpes(cpes, cpeCreationQuery), trimmedQuery, finalThreshold)

AcceptResults(searchResults, trimmedQuery, finalThreshold) ==
  IF searchResults.threw THEN Threw
  ELSE Ret(AcceptRetrieved(searchResults.val, trimmedQuery, CpeCreationQuery(trimmedQuery),
                           finalThreshold))

\* lines 707-821
search_cpes(queryStr, productDb, threshold) ==
  IF queryStr = "" THEN Ret(SearchResult(<<>>, <<>>))
  ELSE IF MATCH_CPE_23_RE(Trim(queryStr)) THEN Ret(SearchResult(<<>>, <<>>))
  ELSE AcceptResults(searchCPEs(Trim(queryStr), productDb, CPE_SEARCH_THRESHOLD_ALT),
                     Trim(queryStr), threshold)

(***************************************************************************)
(* State of the search service: storage, one searchVulns call, one request *)
(***************************************************************************)
VARIABLES
  store,   \* the two databases as the process finds them
  sv,      \* the searchVulns call in flight
  req      \* the HTTP request being served

searchVars == <<store, sv, req>>

NvdRows ==
  <<[cve_id |-> "CVE-2024-27286", description |-> "range", base_score |-> 75],
    [cve_id |-> "CVE-2023-1111", description |-> "general", base_score |-> -1],
    [cve_id |-> "CVE-2022-2222", description |-> "exact", base_score |-> 90]>>

NvdCpeRows ==
  <<[cve_id |-> "CVE-2024-27286", cpe |-> "cpe:2.3:a:redis:redis:*:*:*:*:*:*:*:*",
     cpe_version_start |-> JsStr("5.0"), is_cpe_version_start_including |-> 1,
     cpe_version_end |-> JsStr("6.2"), is_cpe_version_end_including |-> 0],
    [cve_id |-> "CVE-2023-1111", cpe |-> "cpe:2.3:a:pivotal:redis:*:*:*:*:*:*:*:*",
     cpe_version_start |-> JsNull, is_cpe_version_start_including |-> 0,
     cpe_version_end |-> JsNull, is_cpe_version_end_including |-> 0],
    [cve_id |-> "CVE-2022-2222", cpe |-> "cpe:2.3:a:redis:redis:6.0:*:*:*:*:*:*:*",
     cpe_version_start |-> JsNull, is_cpe_version_start_including |-> 0,
     cpe_version_end |-> JsNull, is_cpe_version_end_including |-> 0]>>

GhsaRows ==
  <<[ghsa_id |-> "GHSA-abcd-1234", description |-> "advisory", base_score |-> 80]>>

ExploitRows ==
  <<[cve_id |-> "CVE-2024-27286", exploit_ref |-> "https://example.com/exploit"]>>

EpssRows == <<[cve_id |-> "CVE-2024-27286", epss |-> 123]>>

EolRows ==
  <<[cpe_prefix |-> PrefixA, eold_id |-> "redis", version_start |-> "7.0",
     version_latest |-> "7.2.4", eol_info |-> "false"],
    [cpe_prefix |-> PrefixA, eold_id |-> "redis", version_start |-> "6.0",
     version_latest |-> "6.0.20", eol_info |-> "2023-06-01"]>>

\* the vulnerability database with or without the nvd tables and the EOL table
VulnDb(withNvd, withEol) ==
  [nvd |-> IF withNvd THEN Table(NvdRows) ELSE NoTable,
   nvd_cpe |-> IF withNvd THEN Table(NvdCpeRows) ELSE NoTable,
   ghsa |-> Table(GhsaRows),
   exploits |-> Table(ExploitRows),
   cve_epss |-> Table(EpssRows),
   eol_date_data |-> IF withEol THEN Table(EolRows) ELSE NoTable,
   now |-> "2026-01-01"]

\* the product database: what the term index yields for a query, and whether
\* the cpe_entries table can be read
ProductDb(cpeEntriesReadable) ==
  [terms_to_entries |->
     <<[k |-> "redis 6.0",
        v |-> <<[cpe |-> "cpe:2.3:a:redis:redis:6.0:*:*:*:*:*:*:*", sim |-> 90]>>],
       [k |-> "redis",
        v |-> <<[cpe |-> "cpe:2.3:a:redis:redis:*:*:*:*:*:*:*:*", sim |-> 50]>>]>>,
   cpe_entries |-> cpeEntriesReadable]

Stores ==
  {[vulnDbOpens |-> h[1], productDbOpens |-> h[2],
    vulnDb |-> VulnDb(withNvd, withEol), productDb |-> ProductDb(readable)] :
     h \in {<<TRUE, TRUE>>, <<FALSE, TRUE>>, <<TRUE, FALSE>>},
     withNvd \in BOOLEAN, withEol \in BOOLEAN, readable \in BOOLEAN}

DefaultStore ==
  [vulnDbOpens |-> TRUE, productDbOpens |-> TRUE,
   vulnDb |-> VulnDb(TRUE, FALSE), productDb |-> ProductDb(TRUE)]

\* the sources of the equivalence cache while searches are served
SearchResources ==
  [deprecated |-> Absent, counts |-> NoCounts,
   manual |-> File(<<[k |-> PrefixA, v |-> <<PrefixB>>]>>),
   debian |-> File(<<[k |-> PrefixA, v |-> <<PrefixC>>]>>)]

SearchQueries ==
  {"CVE-2024-27286", "cve-2021-0001", "GHSA-abcd-1234", "redis 6.0", "redis",
   "cpe:2.3:a:redis:redis:6.0", "cpe:2.3:a:pivotal:redis", " CVE-2022-2222 ",
   "cpe:2.3:a:redis:redis:1.2:3", "cpe:2.3:a:redis:redis:1.2rc1"}

\* the elements a client puts into the queries array of a batch
BatchItems ==
  {JsStr("CVE-2024-27286"), JsStr("cpe:2.3:a:redis:redis:6.0"), JsStr("redis 6.0"),
   JsNull}

RECURSIVE ItemLists(_)
ItemLists(n) ==
  IF n = 0 THEN {<<>>}
  ELSE LET shorter == ItemLists(n - 1)
       IN shorter \cup {Append(l, x) : l \in {y \in shorter : Len(y) = n - 1},
                                       x \in BatchItems}

\* the requests a client sends to the batch endpoint: a GET, a body that is
\* not JSON, a body without a queries array, and bodies with one
BatchBodies ==
  {[method |-> "GET", bodyParses |-> TRUE, queriesIsArray |-> TRUE, queries |-> <<>>],
   [method |-> "POST", bodyParses |-> FALSE, queriesIsArray |-> FALSE, queries |-> <<>>],
   [method |-> "POST", bodyParses |-> TRUE, queriesIsArray |-> FALSE, queries |-> <<>>]}
  \cup {[method |-> "POST", bodyParses |-> TRUE, queriesIsArray |-> TRUE, queries |-> l] :
          l \in ItemLists(MaxBatch)}

\* ignore_general_product_vulns, include_single_version_vulns, include_patched
FlagSets ==
  {[ignoreGeneralProductVulns |-> FALSE, includeSingleVersionVulns |-> FALSE,
    includePatched |-> FALSE],
   [ignoreGeneralProductVulns |-> TRUE, includeSingleVersionVulns |-> FALSE,
    includePatched |-> FALSE],
   [ignoreGeneralProductVulns |-> FALSE, includeSingleVersionVulns |-> TRUE,
    includePatched |-> TRUE]}

NoFlags == CHOOSE f \in FlagSets : ~f.ignoreGeneralProductVulns /\ ~f.includePatched

IdleSv ==
  [pc |-> "idle", query |-> "", queryProcessed |-> "", isProductIdQuery |-> FALSE,
   flags |-> NoFlags, vulnDbOpen |-> FALSE, productDbOpen |-> FALSE,
   vulnDbSupplied |-> FALSE, productDbSupplied |-> FALSE,
   closeVulnDbAfter |-> FALSE, closeProductDbAfter |-> FALSE,
   vulnDbCloses |-> 0, productDbCloses |-> 0, cpe |-> "",
   productIds |-> <<>>, pot_cpes |-> <<>>, potProductIds |-> <<>>, vulns |-> <<>>,
   version_status |-> NoStatus, calls |-> <<>>]

IdleReq ==
  [kind |-> "none", status |-> "idle", http |-> 0, queries |-> <<>>, idx |-> 0,
   results |-> <<>>, flags |-> NoFlags]

InitSearchIdle == store = DefaultStore /\ sv = IdleSv /\ req = IdleReq

\* ':*'.repeat(n)
RECURSIVE RepeatWildcard(_)
RepeatWildcard(n) == IF n <= 0 THEN "" ELSE ":*" \o RepeatWildcard(n - 1)

\* the CPE taken as it was written
PadCpe_AsWritten(cpe) == cpe

\* lines 771-775
PadCpe(cpe) == cpe \o RepeatWildcard(13 - Len(Split(cpe)))

\* String(value) as used for a property key
ToPropertyKey(v) == IF v.t = "string" THEN v.s ELSE "null"

\* line 790: searchVulnsBasic runs up to its return, the caller awaits it
CallSearchVulnsBasic(s) ==
  [s EXCEPT !.vulns = searchVulnsBasic(s.queryProcessed, s.productIds, store.vulnDb),
            !.pc = "searchVulnsBasic"]

\* lines 700-752 / 768-782: searchVulns from its call to its first suspension;
\* a connection is opened only where the caller passed none (lines 719-731)
EnterSearchVulnsWith(q, isProductIdQuery, flags, vulnDbConnection, productDbConnection) ==
  LET vulnConn == IF vulnDbConnection THEN Ret("open")
                  ELSE getDatabaseConnection(store.vulnDbOpens)
      productConn == IF productDbConnection THEN Ret("open")
                     ELSE getDatabaseConnection(store.productDbOpens)
      queryProcessed == Trim(q)
      s == [IdleSv EXCEPT !.query = q, !.queryProcessed = queryProcessed,
                          !.isProductIdQuery = isProductIdQuery, !.flags = flags,
                          !.vulnDbSupplied = vulnDbConnection,
                          !.productDbSupplied = productDbConnection,
                          !.closeVulnDbAfter = ~vulnDbConnection /\ ~vulnConn.threw,
                          !.closeProductDbAfter =
                             ~productDbConnection /\ ~vulnConn.threw /\ ~productConn.threw,
                          !.vulnDbOpen = ~vulnConn.threw,
                          !.productDbOpen =
                             productDbConnection \/ (~vulnConn.threw /\ ~productConn.threw)]
      cpe == PadCpe(queryProcessed)
  IN IF vulnConn.threw \/ productConn.threw THEN [s EXCEPT !.pc = "rejected"]
     ELSE IF ~MATCH_CPE_23_RE(queryProcessed)
          THEN [s EXCEPT !.pc = "search_cpes", !.calls = <<"search_cpes">>]
     ELSE IF isProductIdQuery
          THEN CallSearchVulnsBasic([s EXCEPT !.productIds = <<cpe>>])
     ELSE [s EXCEPT !.pc = "getEquivalentCpes", !.cpe = cpe,
                    !.calls = <<"getEquivalentCpes">>]

\* lines 434-444 / 519-529: the service passes no connection of its own
EnterSearchVulns(q, isProductIdQuery, flags) ==
  EnterSearchVulnsWith(q, isProductIdQuery, flags, FALSE, FALSE)

\* lines 700-711: a caller that may bring its own connections
LibraryCall(q, isProductIdQuery, vulnDbConnection, productDbConnection) ==
  /\ sv.pc = "idle"
  /\ req.status = "idle"
  /\ sv' = EnterSearchVulnsWith(q, isProductIdQuery, NoFlags, vulnDbConnection,
                                productDbConnection)
  /\ UNCHANGED <<store, req, EQUIVALENT_CPES, EQUIVALENT_CPES_LOADED>>

\* lines 754-767 and on to the next suspension, for the settled search_cpes
AfterSearchCpes(s, cpeSearchResult) ==
  IF cpeSearchResult.threw THEN [s EXCEPT !.pc = "rejected"]
  ELSE IF Len(cpeSearchResult.val.cpes) > 0 /\ ~s.isProductIdQuery
       THEN [s EXCEPT !.pc = "getEquivalentCpes",
                      !.cpe = cpeSearchResult.val.cpes[1].cpe,
                      !.pot_cpes = cpeSearchResult.val.pot_cpes,
                      !.calls = Append(@, "getEquivalentCpes")]
  ELSE CallSearchVulnsBasic(
         [s EXCEPT !.productIds = IF Len(cpeSearchResult.val.cpes) > 0
                                  THEN <<cpeSearchResult.val.cpes[1].cpe>> ELSE <<>>,
                   !.potProductIds = cpeSearchResult.val.pot_cpes])

\* lines 746-767: search_cpes settled
ReturnSearchCpes ==
  /\ sv.pc = "search_cpes"
  /\ sv' = AfterSearchCpes(sv, search_cpes(sv.queryProcessed, store.productDb,
                                           CPE_SEARCH_THRESHOLD))
  /\ UNCHANGED <<store, req>>
  /\ UNCHANGED <<EQUIVALENT_CPES, EQUIVALENT_CPES_LOADED>>

\* lines 761-767 / 781: getEquivalentCpes settled; no other call overlaps with
\* it, so its load of the cache is one step
ReturnEquivalentCpes ==
  /\ sv.pc = "getEquivalentCpes"
  /\ EQUIVALENT_CPES' = IF EQUIVALENT_CPES_LOADED THEN EQUIVALENT_CPES
                        ELSE UniteAndLink(EQUIVALENT_CPES, LoadedDicts)
  /\ EQUIVALENT_CPES_LOADED' = TRUE
  /\ sv' = CallSearchVulnsBasic(
             [sv EXCEPT !.productIds = ExpandCpe(EQUIVALENT_CPES', sv.cpe),
                        !.potProductIds = sv.pot_cpes])
  /\ UNCHANGED <<store, req>>

\* lines 829-849: addEOLStatus threw, or the connections are closed and the
\* result is returned
Settle(s, eol) ==
  IF eol.threw THEN [s EXCEPT !.pc = "rejected"]
  ELSE [s EXCEPT !.version_status = eol.val,
                 !.vulnDbOpen = IF s.closeVulnDbAfter THEN FALSE ELSE @,
                 !.vulnDbCloses = IF s.closeVulnDbAfter THEN @ + 1 ELSE @,
                 !.productDbOpen = IF s.closeProductDbAfter THEN FALSE ELSE @,
                 !.productDbCloses = IF s.closeProductDbAfter THEN @ + 1 ELSE @,
                 !.pc = "resolved"]

\* lines 790-849: the vulnerabilities are enriched and filtered, the EOL
\* status is added, the connections are closed
FinishSearch ==
  /\ sv.pc = "searchVulnsBasic"
  /\ sv' = Settle([sv EXCEPT !.vulns =
                     RemovePatched(
                       FilterByFlags(
                         addEPSSScores(addExploitInfo(sv.vulns, store.vulnDb),
                                       store.vulnDb),
                         sv.flags.ignoreGeneralProductVulns,
                         sv.flags.includeSingleVersionVulns),
                       sv.flags.includePatched)],
                  addEOLStatus(sv.productIds, store.vulnDb))
  /\ UNCHANGED <<store, req>>
  /\ UNCHANGED <<EQUIVALENT_CPES, EQUIVALENT_CPES_LOADED>>

\* the JSON body of a fulfilled search after serializeVulnsInResult
ResultOf(s) ==
  [error |-> FALSE, product_ids |-> s.productIds, pot_product_ids |-> s.potProductIds,
   vulns |-> [i \in 1..Len(s.vulns) |-> [k |-> s.vulns[i].k, v |-> toDict(s.vulns[i].v)]],
   version_status |-> s.version_status]

\* { error: message }
ErrorEntry ==
  [error |-> TRUE, product_ids |-> <<>>, pot_product_ids |-> <<>>, vulns |-> <<>>,
   version_status |-> NoStatus]

\* lines 395-444: /api/search up to the call of searchVulns
SearchRequest(q, flags) ==
  /\ req.status = "idle"
  /\ IF q = ""
     THEN /\ req' = [IdleReq EXCEPT !.kind = "search", !.status = "responded",
                                    !.http = 400, !.flags = flags]
          /\ sv' = sv
     ELSE /\ req' = [IdleReq EXCEPT !.kind = "search", !.status = "running",
                                    !.flags = flags]
          /\ sv' = EnterSearchVulns(q, FALSE, flags)
  /\ UNCHANGED <<store, EQUIVALENT_CPES, EQUIVALENT_CPES_LOADED>>

\* lines 446-470: the response of /api/search
SearchRespond ==
  /\ req.kind = "search" /\ req.status = "running"
  /\ sv.pc \in {"resolved", "rejected"}
  /\ req' = [req EXCEPT !.status = "responded",
                        !.http = IF sv.pc = "resolved" THEN 200 ELSE 500,
                        !.results = <<[k |-> sv.query,
                                       v |-> IF sv.pc = "resolved" THEN ResultOf(sv)
                                             ELSE ErrorEntry]>>]
  /\ UNCHANGED <<store, sv, EQUIVALENT_CPES, EQUIVALENT_CPES_LOADED>>

\* lines 474-515: /api/batch-search up to its loop
BatchRequest(method, bodyParses, queriesIsArray, queries, flags) ==
  /\ req.status = "idle"
  /\ req' = IF method # "POST"
            THEN [IdleReq EXCEPT !.kind = "batch", !.status = "responded", !.http = 405]
            ELSE IF ~bodyParses
            THEN [IdleReq EXCEPT !.kind = "batch", !.status = "responded", !.http = 500]
            ELSE IF ~queriesIsArray
            THEN [IdleReq EXCEPT !.kind = "batch", !.status = "responded", !.http = 400]
            ELSE [IdleReq EXCEPT !.kind = "batch", !.status = "running",
                                 !.queries = queries, !.idx = 1, !.flags = flags]
  /\ UNCHANGED <<store, sv, EQUIVALENT_CPES, EQUIVALENT_CPES_LOADED>>

\* a failing query ends the whole batch with the outer catch
BatchRecord_Abort ==
  /\ req.kind = "batch" /\ req.status = "running"
  /\ sv.pc \in {"resolved", "rejected"}
  /\ req' = IF sv.pc = "rejected"
            THEN [req EXCEPT !.status = "responded", !.http = 500]
            ELSE [req EXCEPT !.results = Put(@, ToPropertyKey(req.queries[req.idx]),
                                             ResultOf(sv)),
                             !.idx = @ + 1]
  /\ sv' = IdleSv
  /\ UNCHANGED <<store, EQUIVALENT_CPES, EQUIVALENT_CPES_LOADED>>

\* lines 517-529: the next query of the batch; trim() of a non-string throws
\* into the catch of this query
BatchCall ==
  /\ req.kind = "batch" /\ req.status = "running"
  /\ sv.pc = "idle"
  /\ req.idx <= Len(req.queries)
  /\ LET item == req.queries[req.idx]
     IN IF item.t # "string"
        THEN /\ req' = [req EXCEPT !.results = Put(@, ToPropertyKey(item), ErrorEntry),
                                   !.idx = @ + 1]
             /\ sv' = sv
        ELSE /\ req' = req
             /\ sv' = EnterSearchVulns(Trim(item.s), FALSE, req.flags)
  /\ UNCHANGED <<store, EQUIVALENT_CPES, EQUIVALENT_CPES_LOADED>>

\* lines 530-536: the awaited search settled, its entry is recorded
BatchRecord ==
  /\ req.kind = "batch" /\ req.status = "running"
  /\ sv.pc \in {"resolved", "rejected"}
  /\ req' = [req EXCEPT !.results = Put(@, ToPropertyKey(req.queries[req.idx]),
                                        IF sv.pc = "resolved" THEN ResultOf(sv)
                                        ELSE ErrorEntry),
                        !.idx = @ + 1]
  /\ sv' = IdleSv
  /\ UNCHANGED <<store, EQUIVALENT_CPES, EQUIVALENT_CPES_LOADED>>

\* lines 539-544: the loop is over, the results are sent
BatchRespond ==
  /\ req.kind = "batch" /\ req.status = "running"
  /\ sv.pc = "idle"
  /\ req.idx > Len(req.queries)
  /\ req' = [req EXCEPT !.status = "responded", !.http = 200]
  /\ UNCHANGED <<store, sv, EQUIVALENT_CPES, EQUIVALENT_CPES_LOADED>>

(***************************************************************************)
(* mergeModuleVulns (core.ts)                                              *)
(***************************************************************************)
\* delete d[key]
Del(d, key) == RestrictFrom(d, {i \in 1..Len(d) : d[i].k # key}, 1)

\* Array.prototype.sort() of a set of strings
RECURSIVE SortStrings(_)
SortStrings(S) ==
  IF S = {} THEN <<>>
  ELSE LET least == CHOOSE x \in S : \A y \in S \ {x} : StrLess(x, y)
       IN <<least>> \o SortStrings(S \ {least})

\* lines 15-18
MergeOrder(allModuleVulns, modulesDataPreference) ==
  modulesDataPreference
    \o SortStrings(Range(Keys(allModuleVulns)) \ Range(modulesDataPreference))

NotTracked == [found |-> FALSE, key |-> ""]

Tracked(key) == [found |-> TRUE, key |-> key]

\* lines 43-48: the first merged record that lists the alias
MergedWithAlias(mergedVulns, alias) ==
  LET hits == {i \in 1..Len(mergedVulns) : Includes(mergedVulns[i].v.aliases, alias)}
  IN IF hits = {} THEN NotTracked
     ELSE Tracked(mergedVulns[CHOOSE i \in hits : \A j \in hits : i <= j].k)

\* lines 32-50: the key the incoming record is tracked under; an empty list in
\* the alias index yields undefined, which ends the loop without a key
RECURSIVE FindTracked(_, _, _, _)
RECURSIVE FoundOrNext(_, _, _, _, _)
FoundOrNext(aliases, mergedVulns, trackedAliasMap, i, hit) ==
  IF hit.found THEN hit ELSE FindTracked(aliases, mergedVulns, trackedAliasMap, i + 1)

FindTracked(aliases, mergedVulns, trackedAliasMap, i) ==
  IF i > Len(aliases) THEN NotTracked
  ELSE IF Has(mergedVulns, aliases[i]) THEN Tracked(aliases[i])
  ELSE IF Has(trackedAliasMap, aliases[i])
       THEN IF Len(Get(trackedAliasMap, aliases[i])) > 0
            THEN Tracked(Get(trackedAliasMap, aliases[i])[1])
            ELSE NotTracked
  ELSE FoundOrNext(aliases, mergedVulns, trackedAliasMap, i,
                   MergedWithAlias(mergedVulns, aliases[i]))

\* lines 54-59
RECURSIVE TrackAliases(_, _, _)
TrackAliases(trackedAliasMap, aliases, i) ==
  IF i > Len(aliases) THEN trackedAliasMap
  ELSE TrackAliases(Put(trackedAliasMap, aliases[i],
                        Append(GetOrEmpty(trackedAliasMap, aliases[i]), aliases[i])),
                    aliases, i + 1)

\* the map, the alias index, and whether a TypeError was raised
MergeOutcome(mergedVulns, trackedAliasMap, threw) ==
  [mergedVulns |-> mergedVulns, trackedAliasMap |-> trackedAliasMap, threw |-> threw]

MergeThrew == MergeOutcome(<<>>, <<>>, TRUE)

\* line 76; reading the aliases of a missing record raises a TypeError
TrackMerged(mergedVulns, trackedAliasMap, newVulnId) ==
  IF ~Has(mergedVulns, newVulnId) THEN MergeThrew
  ELSE MergeOutcome(mergedVulns,
                    Put(trackedAliasMap, newVulnId, Get(mergedVulns, newVulnId).aliases),
                    FALSE)

\* lines 66-76: the record is stored under its new id when the id changed
Rekey(mergedVulns, trackedAliasMap, oldVulnId, newVulnId) ==
  IF oldVulnId = newVulnId THEN TrackMerged(mergedVulns, trackedAliasMap, newVulnId)
  ELSE IF ~Has(mergedVulns, oldVulnId) THEN MergeThrew
  ELSE TrackMerged(Del(Put(mergedVulns, newVulnId, Get(mergedVulns, oldVulnId)), oldVulnId),
                   IF Has(trackedAliasMap, oldVulnId)
                   THEN Del(Put(trackedAliasMap, newVulnId,
                                Get(trackedAliasMap, oldVulnId)), oldVulnId)
                   ELSE trackedAliasMap,
                   newVulnId)

\* lines 61-63: the record under the tracked key takes the incoming record in
MergeInto(mergedVulns, trackedAliasMap, key, merged) ==
  Rekey(Put(mergedVulns, key, merged), trackedAliasMap, Get(mergedVulns, key).id,
        merged.id)

\* lines 52-77 for the key found by the alias search; a tracked key without a
\* record raises a TypeError at line 61
MergeTracked(mergedVulns, trackedAliasMap, vulnId, vuln, t) ==
  IF ~t.found
  THEN MergeOutcome(Put(mergedVulns, vulnId, vuln),
                    TrackAliases(trackedAliasMap, vuln.aliases, 1), FALSE)
  ELSE IF ~Has(mergedVulns, t.key) THEN MergeThrew
  ELSE MergeInto(mergedVulns, trackedAliasMap, t.key,
                 mergeWithVulnerability(Get(mergedVulns, t.key), vuln))

\* lines 28-77 for one record
MergeOne(mergedVulns, trackedAliasMap, vulnId, vuln) ==
  MergeTracked(mergedVulns, trackedAliasMap, vulnId, vuln,
               FindTracked(vuln.aliases, mergedVulns, trackedAliasMap, 1))

(***************************************************************************)
(* State of the merges                                                     *)
(***************************************************************************)
VARIABLES
  vp,   \* two records and the outcome of merging them in both directions
  mg    \* a mergeModuleVulns call: its arguments, loop position and maps

mergeVars == <<vp, mg>>

PairIds == {"CVE-2024-1234", "GHSA-abcd-1234"}

\* the records of the merge test, over every id, reason and score
PairRecords(source, description) ==
  {Vulnerability(id, reason, <<source>>, description, cvss, <<>>) :
     id \in PairIds, reason \in Range(MatchReasons), cvss \in {"7.5", "8.5"}}

NoRecord == Vulnerability("", VULN_ID, <<>>, "", "", <<>>)

IdleVp ==
  [pc |-> "idle", X |-> NoRecord, Y |-> NoRecord, XY |-> NoRecord, YX |-> NoRecord]

\* two records are constructed
NewPair(X, Y) ==
  /\ vp.pc = "idle"
  /\ vp' = [vp EXCEPT !.pc = "constructed", !.X = X, !.Y = Y]
  /\ UNCHANGED mg

\* X.mergeWithVulnerability(Y) on one copy, Y.mergeWithVulnerability(X) on another
MergePair ==
  /\ vp.pc = "constructed"
  /\ vp' = [vp EXCEPT !.pc = "merged",
                      !.XY = mergeWithVulnerability(vp.X, vp.Y),
                      !.YX = mergeWithVulnerability(vp.Y, vp.X)]
  /\ UNCHANGED mg

MergeIds == {"CVE-1", "CVE-2", "GHSA-1"}

MergeReasons == {VULN_ID, PRODUCT_MATCH}

\* the alias lists of a record: its own id and at most one other id
AliasLists(id, ownIdFirstOnly) ==
  {l \in {<<a>> : a \in MergeIds} \cup {<<a, b>> : a \in MergeIds, b \in MergeIds} :
     /\ Includes(l, id)
     /\ \A i, j \in 1..Len(l) : i # j => l[i] # l[j]
     /\ ownIdFirstOnly => l[1] = id}

\* the records a module reports
ModuleRecords(source, ownIdFirstOnly) ==
  UNION {{Vulnerability(id, reason, <<source>>, source, "7.5", aliases) :
            reason \in MergeReasons, aliases \in AliasLists(id, ownIdFirstOnly)} :
         id \in MergeIds}

\* the maps id -> record with 1..n records taken from recs
RECURSIVE VulnMaps(_, _)
VulnMaps(recs, n) ==
  IF n = 0 THEN {<<>>}
  ELSE LET shorter == VulnMaps(recs, n - 1)
       IN shorter \cup
          {Put(m, r.id, r) : m \in {x \in shorter : Len(x) = n - 1},
                             r \in recs}

\* no preference, nvd preferred, or a module without results and ghsa preferred
ModulePreferences == {<<>>, <<"nvd">>, <<"osv", "ghsa">>}

\* the results of the two modules
NvdResults == VulnMaps(ModuleRecords("nvd", TRUE), MaxRecords) \ {<<>>}

GhsaResults == VulnMaps(ModuleRecords("ghsa", FALSE), 1) \ {<<>>}

IdleMg ==
  [pc |-> "idle", allModuleVulns |-> <<>>, mergeOrder |-> <<>>, mi |-> 0, vi |-> 0,
   mergedVulns |-> <<>>, trackedAliasMap |-> <<>>]

InitMergeIdle == vp = IdleVp /\ mg = IdleMg

\* lines 10-18: the call
CallMerge(allModuleVulns, modulesDataPreference) ==
  /\ mg.pc = "idle"
  /\ mg' = [IdleMg EXCEPT !.pc = "loop", !.allModuleVulns = allModuleVulns,
                          !.mergeOrder = MergeOrder(allModuleVulns, modulesDataPreference),
                          !.mi = 1, !.vi = 1]
  /\ UNCHANGED vp

\* lines 20-23: a preferred module without results
SkipModule ==
  /\ mg.pc = "loop"
  /\ mg.mi <= Len(mg.mergeOrder)
  /\ ~Has(mg.allModuleVulns, mg.mergeOrder[mg.mi])
  /\ mg' = [mg EXCEPT !.mi = @ + 1, !.vi = 1]
  /\ UNCHANGED vp

\* the call after one record: the exception leaves it, or the loop goes on
AfterRecord(g, out) ==
  IF out.threw THEN [g EXCEPT !.pc = "threw"]
  ELSE [g EXCEPT !.mergedVulns = out.mergedVulns,
                 !.trackedAliasMap = out.trackedAliasMap, !.vi = @ + 1]

\* lines 28-77: one record of the current module
MergeRecord ==
  /\ mg.pc = "loop"
  /\ mg.mi <= Len(mg.mergeOrder)
  /\ Has(mg.allModuleVulns, mg.mergeOrder[mg.mi])
  /\ mg.vi <= Len(Get(mg.allModuleVulns, mg.mergeOrder[mg.mi]))
  /\ mg' = AfterRecord(mg, MergeOne(mg.mergedVulns, mg.trackedAliasMap,
                Get(mg.allModuleVulns, mg.mergeOrder[mg.mi])[mg.vi].k,
                Get(mg.allModuleVulns, mg.mergeOrder[mg.mi])[mg.vi].v))
  /\ UNCHANGED vp

\* lines 20-26: the module is done, the next one starts with an empty alias index
NextModule ==
  /\ mg.pc = "loop"
  /\ mg.mi <= Len(mg.mergeOrder)
  /\ Has(mg.allModuleVulns, mg.mergeOrder[mg.mi])
  /\ mg.vi > Len(Get(mg.allModuleVulns, mg.mergeOrder[mg.mi]))
  /\ mg' = [mg EXCEPT !.mi = @ + 1, !.vi = 1, !.trackedAliasMap = <<>>]
  /\ UNCHANGED vp

\* line 81
ReturnMerge ==
  /\ mg.pc = "loop"
  /\ mg.mi > Len(mg.mergeOrder)
  /\ mg' = [mg EXCEPT !.pc = "returned"]
  /\ UNCHANGED vp

(***************************************************************************)
(* The matcher of searchVulnsBasic, one stored row at a time                *)
(***************************************************************************)
VARIABLES mt, vc, tr, sc

fnVars == <<mt, vc, tr, sc>>

\* the CPEs of productIds.cpe the matcher is run for
MatchCpes ==
  {"cpe:2.3:a:redis:redis:6.0:*:*:*:*:*:*:*",
   "cpe:2.3:a:redis:redis:5.0:*:*:*:*:*:*:*",
   "cpe:2.3:a:redis:redis:*:*:*:*:*:*:*:*",
   "cpe:2.3:a:redis:redis"}

\* the CPEs of the nvd_cpe rows
RowCpes ==
  {"cpe:2.3:a:redis:redis:*:*:*:*:*:*:*:*",
   "cpe:2.3:a:redis:redis:6.0:*:*:*:*:*:*:*",
   "cpe:2.3:a:redis:redis:7.0:*:*:*:*:*:*:*",
   "cpe:2.3:a:pivotal:redis:6.0:*:*:*:*:*:*:*"}

\* cpe_version_start and cpe_version_end of a row: NULL, empty or a version
RowBounds == {JsNull, JsStr(""), JsStr("5.0"), JsStr("6.0"), JsStr("7.0")}

MatchRows ==
  [cve_id : {"CVE-2021-0001"}, cpe : RowCpes,
   cpe_version_start : RowBounds, is_cpe_version_start_including : {0, 1},
   cpe_version_end : RowBounds, is_cpe_version_end_including : {0, 1}]

IdleMt == [pc |-> "idle", cpe |-> "", row |-> CHOOSE r \in MatchRows : TRUE,
           found |-> FALSE, decision |-> Ret(NoMatch)]

\* lines 927-984 for one row of the table: whether the query returns the row
\* and passes the prefix check, and what the matcher decides for it
MatchDecide(cpe, row) ==
  /\ mt.pc = "idle"
  /\ mt' = [pc |-> "decided", cpe |-> cpe, row |-> row,
            found |-> StartsWith(row.cpe, ProductPrefix(cpe)) /\ cpeMatchesPrefix(cpe, row.cpe),
            decision |-> IF StartsWith(row.cpe, ProductPrefix(cpe))
                            /\ cpeMatchesPrefix(cpe, row.cpe)
                         THEN MatchRow(cpe, row) ELSE Ret(NoMatch)]
  /\ UNCHANGED <<vc, tr, sc>>

\* the loop goes on to the next row
MatchNext ==
  /\ mt.pc = "decided"
  /\ mt' = IdleMt
  /\ UNCHANGED <<vc, tr, sc>>

(***************************************************************************)
(* Calls of the version functions (test/equivalent_cpes.test.ts)           *)
(***************************************************************************)
JsUndefined == [t |-> "undefined", s |-> "", a |-> <<>>]

\* a number; s is String(n)
JsNum(n) == [t |-> "number", s |-> NatToStr(n), a |-> <<>>]

VersionStrings ==
  {"1.2.3", "1.2.4", "2.0.0", "1.9.9", "1.0", "1", "1.10", "1.0a", "1.0-beta",
   "1_0", "01", "B", "b", "2024", "123", "", "*"}

\* what the callers pass as a version
VersionValues ==
  {JsStr(s) : s \in VersionStrings}
    \cup {JsNull, JsUndefined, JsNum(0), JsNum(123), JsNum(124), JsNum(2024)}

\* the bounds of isVersionInRange: string | null
BoundValues == {JsNull, JsStr(""), JsStr("*"), JsStr("1.0"), JsStr("1.2.3"), JsStr("2.0.0")}

RangeVersions == {JsStr(s) : s \in {"1.0", "1.2.3", "1.9.9", "2.0.0", "1.0a", "", "*"}}

NoCall == Ret(<<>>)

IdleVc == [pc |-> "idle", fn |-> "", a |-> JsNull, b |-> JsNull,
           startInclusive |-> FALSE, endInclusive |-> FALSE,
           out |-> NoCall, rev |-> NoCall, trans |-> NoCall]

\* expect(parseVersion(v))
ParseCall(v) ==
  /\ vc.pc = "idle"
  /\ vc' = [IdleVc EXCEPT !.pc = "returned", !.fn = "parseVersion", !.a = v,
                          !.out = parseVersion(v)]
  /\ UNCHANGED <<mt, tr, sc>>

\* expect(compareVersions(a, b)) and expect(compareVersions(b, a))
CompareCall(a, b) ==
  /\ vc.pc = "idle"
  /\ vc' = [IdleVc EXCEPT !.pc = "returned", !.fn = "compareVersions", !.a = a, !.b = b,
                          !.out = compareVersions(a, b),
                          !.rev = compareVersions(b, a)]
  /\ UNCHANGED <<mt, tr, sc>>

\* isVersionInRange(version, startVersion, startInclusive, endVersion, endInclusive);
\* a holds the version, b the pair of bounds
RangeCall(version, startVersion, startInclusive, endVersion, endInclusive) ==
  /\ vc.pc = "idle"
  /\ vc' = [IdleVc EXCEPT !.pc = "returned", !.fn = "isVersionInRange", !.a = version,
                          !.b = JsArr(<<startVersion, endVersion>>),
                          !.startInclusive = startInclusive,
                          !.endInclusive = endInclusive,
                          !.out = isVersionInRange(version, startVersion, startInclusive,
                                                   endVersion, endInclusive)]
  /\ UNCHANGED <<mt, tr, sc>>

\* the CPEs the isCpeEqual tests compare, and shorter and longer ones
EqualCpes ==
  {"cpe:2.3:a:apache:http_server:2.4.49:*:*:*:*:*:*:*",
   "cpe:2.3:a:apache:http_server:*:*:*:*:*:*:*:*",
   "cpe:2.3:a:apache:http_server:2.4.50:*:*:*:*:*:*:*",
   "cpe:2.3:a:nginx:nginx:2.4.49:*:*:*:*:*:*:*",
   "cpe:2.3:a:apache:tomcat:2.4.49:*:*:*:*:*:*:*",
   "cpe:2.3:a:*:tomcat:2.4.49",
   "cpe:2.3:a:apache:http_server",
   "cpe:2.3:a:apache"}

\* expect(isCpeEqual(cpe1, cpe2)) and expect(isCpeEqual(cpe2, cpe1))
CpeEqualCall(cpe1, cpe2) ==
  /\ vc.pc = "idle"
  /\ vc' = [IdleVc EXCEPT !.pc = "returned", !.fn = "isCpeEqual",
                          !.a = JsStr(cpe1), !.b = JsStr(cpe2),
                          !.out = Ret(isCpeEqual(cpe1, cpe2)),
                          !.rev = Ret(isCpeEqual(cpe2, cpe1))]
  /\ UNCHANGED <<mt, tr, sc>>

\* versions whose parts are numbers at some positions and strings at others
OrderVersions == {"10", "1a", "2", "1.10", "1.2", "1.1a", "b", "1.0-beta"}

\* a caller ordering three versions: compareVersions(a, b), (b, c) and (a, c)
CompareThreeCall(a, b, c) ==
  /\ vc.pc = "idle"
  /\ vc' = [IdleVc EXCEPT !.pc = "returned", !.fn = "compareVersions3", !.a = a,
                          !.b = JsArr(<<b, c>>),
                          !.out = compareVersions(a, b),
                          !.rev = compareVersions(b, c),
                          !.trans = compareVersions(a, c)]
  /\ UNCHANGED <<mt, tr, sc>>

\* the next expectation of the test
VersionNext ==
  /\ vc.pc = "returned"
  /\ vc' = IdleVc
  /\ UNCHANGED <<mt, tr, sc>>



(***************************************************************************)
(* The prefix traversal of getEquivalentCpes, one call or loop step at a   *)
(* time                                                                    *)
(***************************************************************************)
\* call depth the engine allows before it raises a RangeError
MaxDepth == 4

\* the maps loadEquivalentCpes builds from a manual and a Debian file
TraverseMaps ==
  {UniteAndLink(<<>>, <<m, d>>) : m \in Dicts2, d \in {<<>>, <<[k |-> PrefixB, v |-> <<PrefixC>>]>>}}

IdleTr ==
  [pc |-> "idle", eq |-> <<>>, cpePrefix |-> "", equivCpesForPrefix |-> <<>>, oi |-> 0,
   rawEquivCpePrefixes |-> <<>>, stack |-> <<>>, expanded |-> <<>>]

\* a call of search_cpes or of the query rewriter
IdleSc ==
  [pc |-> "idle", fn |-> "", query |-> "", retrieved |-> <<>>, threshold |-> 0,
   potCpes |-> <<>>, fired |-> <<>>, out |-> NoCall]

InitFnIdle == mt = IdleMt /\ vc = IdleVc /\ tr = IdleTr /\ sc = IdleSc

\* a call of getAdditionalEquivCpes in progress
Frame(cpePrefix) == [cpePrefix |-> cpePrefix, i |-> 1, additionalCpePrefixes |-> <<>>]

\* line 273: the prefix is marked before its neighbours are followed
MarkVisited_Skip(raw, cpePrefix) == raw

MarkVisited(raw, cpePrefix) == SetAdd(raw, cpePrefix)

\* lines 267-272: the call returns an empty set at once
ReturnsAtOnce(t, cpePrefix) ==
  ~Has(t.eq, cpePrefix) \/ Includes(t.rawEquivCpePrefixes, cpePrefix)

\* the list the running loop walks and its position in it
CurrentList(t) ==
  IF Len(t.stack) = 0 THEN t.equivCpesForPrefix
  ELSE Get(t.eq, t.stack[Len(t.stack)].cpePrefix)

CurrentIndex(t) == IF Len(t.stack) = 0 THEN t.oi ELSE t.stack[Len(t.stack)].i

AtElement(t) == t.pc = "running" /\ CurrentIndex(t) <= Len(CurrentList(t))

\* the caller takes the set returned for cpePrefix and moves on: lines 293-296
\* for the loop of getEquivalentCpes, lines 278-283 for the loop of a call
Deliver(t, cpePrefix, returned) ==
  IF Len(t.stack) = 0
  THEN [t EXCEPT !.rawEquivCpePrefixes = SetAddAll(@, returned), !.oi = @ + 1]
  ELSE [t EXCEPT !.stack[Len(t.stack)].additionalCpePrefixes =
                    SetAddAll(SetAdd(@, cpePrefix), returned),
                 !.stack[Len(t.stack)].i = @ + 1,
                 !.rawEquivCpePrefixes = SetAdd(@, cpePrefix)]

\* lines 232-234, 263, 290: the traversal starts with an empty visited set
TraverseStart(eq, cpePrefix) ==
  /\ tr.pc = "idle"
  /\ tr' = [IdleTr EXCEPT !.pc = "running", !.eq = eq, !.cpePrefix = cpePrefix,
                          !.equivCpesForPrefix = GetOrEmpty(eq, cpePrefix), !.oi = 1]
  /\ UNCHANGED <<mt, vc, sc>>

\* lines 292-293 and 277-279 with 266-273: an element that is not in the
\* visited set is handed to getAdditionalEquivCpes
TraverseCall ==
  /\ AtElement(tr)
  /\ ~Includes(tr.rawEquivCpePrefixes, CurrentList(tr)[CurrentIndex(tr)])
  /\ tr' = IF ReturnsAtOnce(tr, CurrentList(tr)[CurrentIndex(tr)])
           THEN Deliver(tr, CurrentList(tr)[CurrentIndex(tr)], <<>>)
           ELSE IF Len(tr.stack) >= MaxDepth
           THEN [tr EXCEPT !.pc = "overflow"]
           ELSE [tr EXCEPT
                   !.rawEquivCpePrefixes =
                      MarkVisited(@, CurrentList(tr)[CurrentIndex(tr)]),
                   !.expanded = Append(@, CurrentList(tr)[CurrentIndex(tr)]),
                   !.stack = Append(@, Frame(CurrentList(tr)[CurrentIndex(tr)]))]
  /\ UNCHANGED <<mt, vc, sc>>

\* lines 277 and 292: an element that is in the visited set is passed over
TraverseSkip ==
  /\ AtElement(tr)
  /\ Includes(tr.rawEquivCpePrefixes, CurrentList(tr)[CurrentIndex(tr)])
  /\ tr' = IF Len(tr.stack) = 0 THEN [tr EXCEPT !.oi = @ + 1]
           ELSE [tr EXCEPT !.stack[Len(tr.stack)].i = @ + 1]
  /\ UNCHANGED <<mt, vc, sc>>

\* line 287: a call has walked its list and returns additionalCpePrefixes
TraverseReturn ==
  /\ tr.pc = "running"
  /\ Len(tr.stack) > 0
  /\ CurrentIndex(tr) > Len(CurrentList(tr))
  /\ tr' = Deliver([tr EXCEPT !.stack = SubSeq(@, 1, Len(@) - 1)],
                   tr.stack[Len(tr.stack)].cpePrefix,
                   tr.stack[Len(tr.stack)].additionalCpePrefixes)
  /\ UNCHANGED <<mt, vc, sc>>

\* line 298: the loop of getEquivalentCpes is over
TraverseDone ==
  /\ tr.pc = "running"
  /\ Len(tr.stack) = 0
  /\ tr.oi > Len(tr.equivCpesForPrefix)
  /\ tr' = [tr EXCEPT !.pc = "done"]
  /\ UNCHANGED <<mt, vc, sc>>

\* the next query
TraverseNext ==
  /\ tr.pc \in {"done", "overflow"}
  /\ tr' = IdleTr
  /\ UNCHANGED <<mt, vc, sc>>

\* the steps of a started traversal; it runs without yielding
TraverseStep == TraverseCall \/ TraverseSkip \/ TraverseReturn \/ TraverseDone

(***************************************************************************)
(* Calls of search_cpes over retrieved candidates, and the abbreviation    *)
(* rule of the query rewriter                                              *)
(***************************************************************************)
RetrievedCpes ==
  {"cpe:2.3:a:redis:redis:6.0:*:*:*:*:*:*:*",
   "cpe:2.3:a:redis:redis:7.0:rc1:*:*:*:*:*:*",
   "cpe:2.3:a:redis:redis:*:*:*:*:*:*:*:*",
   "cpe:2.3:a:redislabs:redis:6.0:*:*:*:*:*:*:*",
   "cpe:2.3:a:f5:nginx:-:*:*:*:*:*:*:*"}

\* similarities in percent
RetrievedSims == {90, 68, 50, 30}

\* what _searchCPEs returns: best candidates first
RankedLists ==
  {<<Entry(c, s)>> : c \in RetrievedCpes, s \in RetrievedSims}
    \cup {l \in {<<Entry(c1, s1), Entry(c2, s2)>> :
                   c1 \in RetrievedCpes, c2 \in RetrievedCpes,
                   s1 \in RetrievedSims, s2 \in RetrievedSims} :
            l[1].cpe # l[2].cpe /\ l[1].sim >= l[2].sim}

FreeTextQueries == {"redis", "Redis server", "redis 6.0", "redis 7.0rc1", " redis 6.0 beta 2"}

\* config.CPE_SEARCH_THRESHOLD as deployed and as a site may set it
Thresholds == {CPE_SEARCH_THRESHOLD, 50}

\* the term index answering one query
IndexFor(queryStr, entries) ==
  [terms_to_entries |-> <<[k |-> ToLowerCase(Trim(queryStr)), v |-> entries]>>,
   cpe_entries |-> TRUE]

\* await search_cpes(query, db, count, threshold, config); potCpes is the
\* local list as it stands at line 781
SearchCpesCall(queryStr, entries, threshold) ==
  /\ sc.pc = "idle"
  /\ sc' = [IdleSc EXCEPT
              !.pc = "returned", !.fn = "search_cpes", !.query = queryStr,
              !.retrieved = searchCPEs(Trim(queryStr), IndexFor(queryStr, entries),
                                       CPE_SEARCH_THRESHOLD_ALT).val,
              !.threshold = threshold,
              !.potCpes = BuildPotCpes(entries, CpeCreationQuery(Trim(queryStr))),
              !.out = search_cpes(queryStr, IndexFor(queryStr, entries), threshold)]
  /\ UNCHANGED <<mt, vc, tr>>

Abbreviation(abbreviation, requiredKeywords, replacement) ==
  [abbreviation |-> abbreviation, requiredKeywords |-> requiredKeywords,
   replacement |-> replacement]

QUERY_ABBREVIATIONS ==
  <<Abbreviation("adc", <<"citrix">>, "application delivery controller"),
    Abbreviation("omsa", <<"dell">>, "openmanage server administrator"),
    Abbreviation("cdk", <<"amazon", "aws">>, "aws cdk cloud development kit"),
    Abbreviation("srm", <<"vmware">>, "site recovery manager"),
    Abbreviation("paloaltonetworks", <<>>, "palo alto networks"),
    Abbreviation("palo alto networks", <<>>, "paloaltonetworks"),
    Abbreviation("trend micro", <<>>, "trendmicro"),
    Abbreviation("ds", <<"trend", "micro">>, "deep security"),
    Abbreviation("ms", <<>>, "microsoft"),
    Abbreviation("dsa", <<"trend", "micro">>, "deep security agent"),
    Abbreviation("dsm", <<"trend", "micro">>, "deep security manager"),
    Abbreviation("asa", <<"cisco">>, "adaptive security appliance")>>

\* lines 153-156
AbbreviationApplies(queryStr, a) ==
  /\ \/ Len(a.requiredKeywords) = 0
     \/ \E i \in 1..Len(a.requiredKeywords) : StrIncludes(queryStr, a.requiredKeywords[i])
  /\ \/ StartsWith(queryStr, a.abbreviation)
     \/ EndsWith(queryStr, a.abbreviation)
     \/ StrIncludes(queryStr, " " \o a.abbreviation \o " ")

\* replace(new RegExp(abbreviation, 'g'), ` ${replacement} `)
ExpandAbbreviation(queryStr, a) == ReplaceAll(queryStr, a.abbreviation, " " \o a.replacement \o " ")

\* lines 151-161: the alternative queries, the query with every applicable
\* abbreviation replaced, and the abbreviations whose rule fired
RECURSIVE AbbreviationLoop(_, _, _, _, _)
AbbreviationLoop(queryStr, i, alts, altQueryAllReplaced, fired) ==
  IF i > Len(QUERY_ABBREVIATIONS)
  THEN [alts |-> alts, altQueryAllReplaced |-> altQueryAllReplaced, fired |-> fired]
  ELSE IF AbbreviationApplies(queryStr, QUERY_ABBREVIATIONS[i])
  THEN AbbreviationLoop(queryStr, i + 1,
                        Append(alts, ExpandAbbreviation(queryStr, QUERY_ABBREVIATIONS[i])),
                        ExpandAbbreviation(altQueryAllReplaced, QUERY_ABBREVIATIONS[i]),
                        Append(fired, QUERY_ABBREVIATIONS[i].abbreviation))
  ELSE AbbreviationLoop(queryStr, i + 1, alts, altQueryAllReplaced, fired)

\* lines 150-165: what the abbreviation rule adds to altQueriesMapping[query]
AbbreviationQueries(loop, queryStr) ==
  IF loop.altQueryAllReplaced # queryStr
  THEN Append(loop.alts, loop.altQueryAllReplaced) ELSE loop.alts

\* the queries the rewriter is given
RewriterQueries ==
  {"ms office 2019", "office ms", "windows ms word", "mssql 2019", "forms", "alarms",
   "citrix adc 13.0", "adc", "dell omsa", "cisco asa 9.1", "asav cisco", "asa",
   "trend micro ds", "trend micro dsm 10", "palo alto networks pan-os", "redis 6.0",
   "aws cdk", "kids cisco"}

\* getAlternativeQueries reaching its abbreviation rule for one query
AbbreviationCall(queryStr) ==
  /\ sc.pc = "idle"
  /\ sc' = [IdleSc EXCEPT
              !.pc = "returned", !.fn = "getAlternativeQueries", !.query = queryStr,
              !.fired = AbbreviationLoop(queryStr, 1, <<>>, queryStr, <<>>).fired,
              !.out = Ret(AbbreviationQueries(
                            AbbreviationLoop(queryStr, 1, <<>>, queryStr, <<>>), queryStr))]
  /\ UNCHANGED <<mt, vc, tr>>

\* the next call
RetrieveNext ==
  /\ sc.pc = "returned"
  /\ sc' = IdleSc
  /\ UNCHANGED <<mt, vc, tr>>

(***************************************************************************)
(* Deprecation sources for the construction of the deprecated dictionary   *)
(***************************************************************************)
Deprecation(cpe, by) == [k |-> cpe, v |-> by]

\* deprecated-cpes.json: a replacement under another vendor, one that differs
\* in the update field only, two deprecated versions, a CPE listed as its own
\* replacement, and deprecations of two products
DeprecationFiles ==
  {DeprecatedRaw,
   <<Deprecation(PrefixC \o "5.0:*:*:*:*:*:*:*", <<PrefixC \o "5.0:sp1:*:*:*:*:*:*">>)>>,
   <<Deprecation(PrefixC \o "5.0:*:*:*:*:*:*:*",
                 <<PrefixA \o "5.0:*:*:*:*:*:*:*", PrefixB \o "5.0:*:*:*:*:*:*:*">>),
     Deprecation(PrefixC \o "6.0:*:*:*:*:*:*:*", <<PrefixA \o "6.0:*:*:*:*:*:*:*">>)>>,
   <<Deprecation(PrefixC \o "5.0:*:*:*:*:*:*:*",
                 <<PrefixC \o "5.0:*:*:*:*:*:*:*", PrefixA \o "5.0:*:*:*:*:*:*:*">>)>>,
   <<Deprecation(PrefixC \o "5.0:*:*:*:*:*:*:*", <<PrefixA \o "5.0:*:*:*:*:*:*:*">>),
     Deprecation(PrefixB \o "6.0:*:*:*:*:*:*:*", <<PrefixA \o "6.0:*:*:*:*:*:*:*">>)>>}

\* product_cpe_counts: missing, without a row for the product, or with counts
\* on both sides of the threshold for one and for two deprecated CPEs
CountTables ==
  {NoCounts, [exists |-> TRUE, rows |-> <<>>]}
    \cup {[exists |-> TRUE, rows |-> <<[k |-> PrefixC, v |-> n], [k |-> PrefixB, v |-> 6]>>] :
            n \in {4, 6, 7, 12, 13}}

DeprecationResources ==
  {[deprecated |-> File(f), counts |-> c, manual |-> m, debian |-> Absent] :
     f \in DeprecationFiles, c \in CountTables,
     m \in {Absent, File(<<[k |-> PrefixA, v |-> <<PrefixB>>]>>)}}

(***************************************************************************)
(* Specifications                                                          *)
(***************************************************************************)
vars == <<eqVars, searchVars, mergeVars, fnVars>>

\* the variables that calls on the equivalence cache leave alone
nonEqVars == <<searchVars, mergeVars, fnVars>>

\* the variables of the equivalence calls that a search leaves alone
nonSearchVars == <<resources, pc, dictsList, query, result, reads, mergeVars, fnVars>>

\* the variables that a merge leaves alone
nonMergeVars == <<eqVars, searchVars, fnVars>>

\* the variables that the matcher and the version calls leave alone
nonFnVars == <<eqVars, searchVars, mergeVars>>

\* overlapping calls on a process-wide cache
Init ==
  /\ InitCalls
  /\ resources \in Resources({s \in DeprecationSetups : s.counts.exists = s.deprecated.present},
                              Dicts1, {<<[k |-> PrefixB, v |-> <<PrefixC>>]>>})
  /\ InitSearchIdle
  /\ InitMergeIdle
  /\ InitFnIdle

Next ==
  \E c \in Calls :
    \/ StartLoad(c) /\ UNCHANGED nonEqVars
    \/ LoadDeprecated(c) /\ UNCHANGED nonEqVars
    \/ LoadManual(c) /\ UNCHANGED nonEqVars
    \/ LoadDebian(c) /\ UNCHANGED nonEqVars
    \/ ReturnLoad(c) /\ UNCHANGED nonEqVars
    \/ NextCall(c) /\ UNCHANGED nonEqVars

Spec == Init /\ [][Next]_vars

\* one caller expanding CPEs over every small equivalence graph
InitExpand ==
  /\ InitCalls
  /\ resources \in Resources({s \in DeprecationSetups : s.deprecated.present => s.counts.exists},
                              Dicts2,
                              {<<[k |-> PrefixB, v |-> <<PrefixC>>]>>})
  /\ InitSearchIdle
  /\ InitMergeIdle
  /\ InitFnIdle

NextExpand ==
  \/ StartLoad(1) /\ UNCHANGED nonEqVars
  \/ StartGet(1, QueryCpes) /\ UNCHANGED nonEqVars
  \/ LoadDeprecated(1) /\ UNCHANGED nonEqVars
  \/ LoadManual(1) /\ UNCHANGED nonEqVars
  \/ LoadDebian(1) /\ UNCHANGED nonEqVars
  \/ ReturnLoad(1) /\ UNCHANGED nonEqVars
  \/ Expand(1) /\ UNCHANGED nonEqVars
  \/ NextCall(1) /\ UNCHANGED nonEqVars

SpecExpand == InitExpand /\ [][NextExpand]_vars

\* one request to the search service over every storage condition
InitSearch ==
  /\ InitCalls
  /\ resources = SearchResources
  /\ store \in Stores
  /\ sv = IdleSv
  /\ req = IdleReq
  /\ InitMergeIdle
  /\ InitFnIdle

NextSearch ==
  \/ /\ req.status = "idle"
     /\ \E q \in SearchQueries \cup {""}, f \in FlagSets : SearchRequest(q, f)
     /\ UNCHANGED nonSearchVars
  \/ SearchRespond /\ UNCHANGED nonSearchVars
  \/ /\ req.status = "idle"
     /\ \E b \in BatchBodies, f \in FlagSets :
          BatchRequest(b.method, b.bodyParses, b.queriesIsArray, b.queries, f)
     /\ UNCHANGED nonSearchVars
  \/ BatchCall /\ UNCHANGED nonSearchVars
  \/ BatchRecord /\ UNCHANGED nonSearchVars
  \/ BatchRespond /\ UNCHANGED nonSearchVars
  \/ ReturnSearchCpes /\ UNCHANGED nonSearchVars
  \/ ReturnEquivalentCpes /\ UNCHANGED nonSearchVars
  \/ FinishSearch /\ UNCHANGED nonSearchVars

SpecSearch == InitSearch /\ [][NextSearch]_vars

\* pairs of records merged in both directions
InitVuln ==
  /\ InitCalls
  /\ resources = SearchResources
  /\ InitSearchIdle
  /\ InitMergeIdle
  /\ InitFnIdle

NextVuln ==
  \/ /\ vp.pc = "idle"
     /\ \E X \in PairRecords("source1", "First description"),
           Y \in PairRecords("source2", "Better description") : NewPair(X, Y)
     /\ UNCHANGED nonMergeVars
  \/ MergePair /\ UNCHANGED nonMergeVars

SpecVuln == InitVuln /\ [][NextVuln]_vars

\* mergeModuleVulns over the results of two modules
NextMerge ==
  \/ /\ mg.pc = "idle"
     /\ \E nvd \in NvdResults, ghsa \in GhsaResults, preference \in ModulePreferences :
          CallMerge(<<[k |-> "nvd", v |-> nvd], [k |-> "ghsa", v |-> ghsa]>>, preference)
     /\ UNCHANGED nonMergeVars
  \/ SkipModule /\ UNCHANGED nonMergeVars
  \/ MergeRecord /\ UNCHANGED nonMergeVars
  \/ NextModule /\ UNCHANGED nonMergeVars
  \/ ReturnMerge /\ UNCHANGED nonMergeVars

SpecMerge == InitVuln /\ [][NextMerge]_vars

\* the matcher over every query CPE and stored row
NextMatch ==
  \/ /\ mt.pc = "idle"
     /\ \E cpe \in MatchCpes, row \in MatchRows : MatchDecide(cpe, row)
     /\ UNCHANGED nonFnVars
  \/ MatchNext /\ UNCHANGED nonFnVars

SpecMatch == InitVuln /\ [][NextMatch]_vars

\* the version functions over every small argument
NextVersion ==
  \/ /\ vc.pc = "idle"
     /\ \E v \in VersionValues : ParseCall(v)
     /\ UNCHANGED nonFnVars
  \/ /\ vc.pc = "idle"
     /\ \E a \in VersionValues, b \in VersionValues : CompareCall(a, b)
     /\ UNCHANGED nonFnVars
  \/ /\ vc.pc = "idle"
     /\ \E v \in RangeVersions, s \in BoundValues, e \in BoundValues,
           sIncl \in BOOLEAN, eIncl \in BOOLEAN : RangeCall(v, s, sIncl, e, eIncl)
     /\ UNCHANGED nonFnVars
  \/ /\ vc.pc = "idle"
     /\ \E cpe1 \in EqualCpes, cpe2 \in EqualCpes : CpeEqualCall(cpe1, cpe2)
     /\ UNCHANGED nonFnVars
  \/ /\ vc.pc = "idle"
     /\ \E a \in OrderVersions, b \in OrderVersions, c \in OrderVersions :
           CompareThreeCall(JsStr(a), JsStr(b), JsStr(c))
     /\ UNCHANGED nonFnVars
  \/ VersionNext /\ UNCHANGED nonFnVars

SpecVersion == InitVuln /\ [][NextVersion]_vars

\* the traversal over every built map and every query prefix
NextTraverse ==
  \/ /\ tr.pc = "idle"
     /\ \E eq \in TraverseMaps, cpePrefix \in Prefixes : TraverseStart(eq, cpePrefix)
     /\ UNCHANGED nonFnVars
  \/ TraverseCall /\ UNCHANGED nonFnVars
  \/ TraverseSkip /\ UNCHANGED nonFnVars
  \/ TraverseReturn /\ UNCHANGED nonFnVars
  \/ TraverseDone /\ UNCHANGED nonFnVars
  \/ TraverseNext /\ UNCHANGED nonFnVars

\* getEquivalentCpes is synchronous after its await: a started traversal keeps
\* taking steps until it returns
SpecTraverse ==
  InitVuln /\ [][NextTraverse]_vars /\ WF_vars(TraverseStep /\ UNCHANGED nonFnVars)

\* search_cpes over every ranked list of candidates, and the rewriter's
\* abbreviation rule over its queries
NextRetrieve ==
  \/ /\ sc.pc = "idle"
     /\ \E q \in FreeTextQueries, l \in RankedLists, t \in Thresholds :
           SearchCpesCall(q, l, t)
     /\ UNCHANGED nonFnVars
  \/ /\ sc.pc = "idle"
     /\ \E q \in RewriterQueries : AbbreviationCall(q)
     /\ UNCHANGED nonFnVars
  \/ RetrieveNext /\ UNCHANGED nonFnVars

SpecRetrieve == InitVuln /\ [][NextRetrieve]_vars

\* one load over every deprecation file and count table
InitDeprecation ==
  /\ InitCalls
  /\ resources \in DeprecationResources
  /\ InitSearchIdle
  /\ InitMergeIdle
  /\ InitFnIdle

NextDeprecation ==
  \/ StartLoad(1) /\ UNCHANGED nonEqVars
  \/ LoadDeprecated(1) /\ UNCHANGED nonEqVars
  \/ LoadManual(1) /\ UNCHANGED nonEqVars
  \/ LoadDebian(1) /\ UNCHANGED nonEqVars
  \/ ReturnLoad(1) /\ UNCHANGED nonEqVars
  \/ NextCall(1) /\ UNCHANGED nonEqVars

SpecDeprecation == InitDeprecation /\ [][NextDeprecation]_vars


\* searchVulns called with and without connections of the caller, over every
\* storage condition
NextConnections ==
  \/ /\ sv.pc = "idle"
     /\ \E q \in SearchQueries, isProductIdQuery \in BOOLEAN,
           vulnDbConnection \in BOOLEAN, productDbConnection \in BOOLEAN :
           LibraryCall(q, isProductIdQuery, vulnDbConnection, productDbConnection)
     /\ UNCHANGED nonSearchVars
  \/ ReturnSearchCpes /\ UNCHANGED nonSearchVars
  \/ ReturnEquivalentCpes /\ UNCHANGED nonSearchVars
  \/ FinishSearch /\ UNCHANGED nonSearchVars

SpecConnections == InitSearch /\ [][NextConnections]_vars
(***************************************************************************)
(* Properties of the equivalence cache                                     *)
(***************************************************************************)
\* the map one load builds from an empty cache
SingleLoadMap == UniteAndLink(<<>>, LoadedDicts)

\* the relation "key records value" of the loaded sources, in both directions
SourceEdges ==
  LET entries == Flatten(LoadedDicts)
      directed == UNION {{<<entries[i].k, entries[i].v[j]>> : j \in 1..Len(entries[i].v)} :
                           i \in 1..Len(entries)}
  IN directed \cup {<<e[2], e[1]>> : e \in directed}

RECURSIVE ReachFrom(_, _)
ReachFrom(edges, seen) ==
  LET next == seen \cup {e[2] : e \in {x \in edges : x[1] \in seen}}
  IN IF next = seen THEN seen ELSE ReachFrom(edges, next)

HasCpeUnder(list, prefix) == \E i \in 1..Len(list) : ProductPrefix(list[i]) = prefix

Returned(c) == pc[c] = "done" /\ query[c] # NoQuery

\* C1: a returned expansion of a CPE under prefix A contains a CPE under every
\* prefix that the loaded sources connect to A through any number of
\* equivalence edges.
C1_TransitiveClosure ==
  \A c \in Calls :
    Returned(c) =>
      \A p \in (ReachFrom(SourceEdges, {ProductPrefix(query[c])}) \cap Prefixes) :
        HasCpeUnder(result[c], p)

\* a returned expansion surfaced a prefix that is two or more edges away
C1_Witness ==
  \E c \in Calls :
    /\ Returned(c)
    /\ \E p \in Prefixes :
         /\ p # ProductPrefix(query[c])
         /\ p \in ReachFrom(SourceEdges, {ProductPrefix(query[c])})
         /\ <<ProductPrefix(query[c]), p>> \notin SourceEdges
         /\ HasCpeUnder(result[c], p)

\* C2: if the entry of prefix A in the built map records prefix B, a returned
\* expansion of a CPE under B contains a CPE under A.
C2_SymmetricAtQueryTime ==
  \A c \in Calls :
    Returned(c) =>
      \A a \in Prefixes :
        (Has(EQUIVALENT_CPES, a) /\ Includes(Get(EQUIVALENT_CPES, a), ProductPrefix(query[c])))
          => HasCpeUnder(result[c], a)

\* the expanded prefix B is recorded by A although no source lists A under B
C2_Witness ==
  \E c \in Calls :
    /\ Returned(c)
    /\ \E a \in Prefixes :
         /\ a # ProductPrefix(query[c])
         /\ Has(EQUIVALENT_CPES, a)
         /\ Includes(Get(EQUIVALENT_CPES, a), ProductPrefix(query[c]))
         /\ \A d \in Range(LoadedDicts) :
              ~(Has(d, ProductPrefix(query[c])) /\ Includes(Get(d, ProductPrefix(query[c])), a))
         /\ HasCpeUnder(result[c], a)

\* C3: with overlapping calls the cache, once flagged as loaded, holds exactly
\* the map of a single load (it is built once and never changed afterwards).
C3_OverlappingLoadsIdempotent ==
  EQUIVALENT_CPES_LOADED => EQUIVALENT_CPES = SingleLoadMap

\* C4: a call that starts after the cache is loaded reads no source and leaves
\* the map unchanged, and with sequential calls the map stays the single-load map.
C4_LaterCallsAreNoOps ==
  /\ [][\A c \in Calls :
          /\ (pc[c] = "idle" /\ pc'[c] # "idle" /\ EQUIVALENT_CPES_LOADED)
               => (pc'[c] = "loaded" /\ reads'[c] = 0
                   /\ EQUIVALENT_CPES' = EQUIVALENT_CPES)
          /\ (pc[c] = "loaded" /\ pc'[c] = "done")
               => (reads'[c] = reads[c] /\ EQUIVALENT_CPES' = EQUIVALENT_CPES)]_vars
  /\ [](EQUIVALENT_CPES_LOADED => EQUIVALENT_CPES = SingleLoadMap)

\* a call entered after the load, returned with no read, over a non-empty map
C4_Witness ==
  \E c \in Calls :
    /\ pc[c] = "done"
    /\ reads[c] = 0
    /\ EQUIVALENT_CPES_LOADED
    /\ EQUIVALENT_CPES # <<>>


(***************************************************************************)
(* Properties of the search service                                        *)
(***************************************************************************)
\* the whole trimmed query is one CVE or GHSA identifier
IsVulnIdQuery(q) ==
  Trim(q) # "" /\ (cveMatch(Trim(q)) = Trim(q) \/ ghsaMatch(Trim(q)) = Trim(q))

\* the identifier of the query has a row in its table
IdentifierStored(q) ==
  \/ /\ cveMatch(Trim(q)) = Trim(q)
     /\ store.vulnDb.nvd.exists
     /\ HasNvdRow(store.vulnDb, ToUpperCase(Trim(q)))
  \/ /\ ghsaMatch(Trim(q)) = Trim(q)
     /\ store.vulnDb.ghsa.exists
     /\ HasGhsaRow(store.vulnDb, Trim(q))

\* C5: with both databases available, a searchVulns call whose query is a
\* vulnerability identifier never calls search_cpes or getEquivalentCpes, is not
\* rejected, and resolves with exactly one VULN_ID record when the identifier
\* is stored and with an empty vulns map when it is not.
C5_VulnIdBypassesRetrieval ==
  (sv.pc # "idle" /\ IsVulnIdQuery(sv.query) /\ store.vulnDbOpens /\ store.productDbOpens)
    => /\ sv.calls = <<>>
       /\ sv.pc # "rejected"
       /\ sv.pc = "resolved" =>
            IF IdentifierStored(sv.query)
            THEN Len(sv.vulns) = 1 /\ sv.vulns[1].v.matchReason = VULN_ID
            ELSE sv.vulns = <<>>

\* C6: no searchVulns call is ever rejected, whatever the query and whatever
\* the state of the storage.
C6_SearchNeverRejects == sv.pc # "rejected"

\* the key of the batch query that is being evaluated
CurrentKey == ToPropertyKey(req.queries[req.idx])

\* the awaited search of a running batch settles in this step
BatchSettles(outcome) ==
  /\ req.kind = "batch" /\ req.status = "running"
  /\ sv.pc = outcome
  /\ req' # req

\* C7: when the search of one batch query is rejected, the batch records an
\* error entry for that query, keeps every entry recorded so far and goes on
\* with the next query; a fulfilled search is recorded with its result; the
\* response of a batch whose body was read has an entry for every query, and the
\* batch fails as a whole only when its body cannot be parsed.
C7_BatchIsolatesFailures ==
  /\ [][BatchSettles("rejected") =>
          /\ req'.status = "running"
          /\ req'.idx = req.idx + 1
          /\ Get(req'.results, CurrentKey) = ErrorEntry
          /\ \A k \in Range(Keys(req.results)) \ {CurrentKey} :
               Has(req'.results, k) /\ Get(req'.results, k) = Get(req.results, k)]_vars
  /\ [][BatchSettles("resolved") =>
          /\ req'.status = "running"
          /\ req'.idx = req.idx + 1
          /\ Get(req'.results, CurrentKey) = ResultOf(sv)]_vars
  /\ []((req.kind = "batch" /\ req.status = "responded" /\ req.http = 200) =>
          \A i \in 1..Len(req.queries) : Has(req.results, ToPropertyKey(req.queries[i])))
  /\ []((req.kind = "batch" /\ req.http = 500) => req.queries = <<>>)

\* a batch answered with 200 in which the search of an earlier query was
\* rejected and a later query still returned vulnerabilities
C7_Witness ==
  /\ req.kind = "batch" /\ req.status = "responded" /\ req.http = 200
  /\ \E i, j \in 1..Len(req.queries) :
       /\ i < j
       /\ req.queries[i].t = "string"
       /\ Get(req.results, req.queries[i].s).error
       /\ req.queries[j].t = "string"
       /\ ~Get(req.results, req.queries[j].s).error
       /\ Len(Get(req.results, req.queries[j].s).vulns) > 0

(***************************************************************************)
(* Properties of the merges                                                *)
(***************************************************************************)
\* the rank the specification gives a match reason: VULN_ID is the greatest
SpecifiedRank(reason) == Len(MatchReasons) + 1 - MatchReasonOrdinal(reason)

\* C8: with VULN_ID > VERSION_IN_RANGE > PRODUCT_MATCH > GENERAL_PRODUCT_OK >
\* GENERAL_PRODUCT_UNCERTAIN > SINGLE_HIGHER_VERSION, merging Y into X replaces
\* X's match reason, description and CVSS by Y's exactly when Y's reason is
\* strictly greater than X's, and keeps X's otherwise.
C8_StrongerReasonWins ==
  vp.pc = "merged" =>
    LET wins == SpecifiedRank(vp.Y.matchReason) > SpecifiedRank(vp.X.matchReason)
        from == IF wins THEN vp.Y ELSE vp.X
    IN /\ vp.XY.matchReason = from.matchReason
       /\ vp.XY.description = from.description
       /\ vp.XY.cvss = from.cvss

\* C9: for two records with the same id and distinct match reasons, merging Y
\* into X and merging X into Y end with the same id, match reason,
\* description and CVSS.
C9_MergeCommutes ==
  (vp.pc = "merged" /\ vp.X.id = vp.Y.id /\ vp.X.matchReason # vp.Y.matchReason)
    => /\ vp.XY.id = vp.YX.id
       /\ vp.XY.matchReason = vp.YX.matchReason
       /\ vp.XY.description = vp.YX.description
       /\ vp.XY.cvss = vp.YX.cvss

\* two records of one id with distinct reasons and distinct scores were merged
\* both ways, and in one direction the incoming record's fields replaced the
\* receiver's
C9_Witness ==
  /\ vp.pc = "merged"
  /\ vp.X.id = vp.Y.id
  /\ vp.X.matchReason # vp.Y.matchReason
  /\ vp.X.cvss # vp.Y.cvss
  /\ vp.XY.description = vp.Y.description
  /\ vp.YX.description = vp.Y.description

\* the keys whose record differs or is gone after a step
ChangedKeys(before, after) ==
  {k \in Range(Keys(before)) : ~Has(after, k) \/ Get(after, k) # Get(before, k)}

\* C10: the map returned by mergeModuleVulns holds under every key a record
\* with that id; a merge step changes or moves at most the record it merges
\* into, and when it removes a key, the alias index has no entry under that key
\* any more and has one under the key the record moved to.
C10_RekeyKeepsEveryRecord ==
  /\ [](mg.pc = "returned" =>
          \A i \in 1..Len(mg.mergedVulns) : mg.mergedVulns[i].v.id = mg.mergedVulns[i].k)
  /\ [][(mg.pc = "loop" /\ mg'.pc = "loop" /\ mg'.mergedVulns # mg.mergedVulns) =>
          /\ Cardinality(ChangedKeys(mg.mergedVulns, mg'.mergedVulns)) <= 1
          /\ \A old \in Range(Keys(mg.mergedVulns)) \ Range(Keys(mg'.mergedVulns)) :
               /\ ~Has(mg'.trackedAliasMap, old)
               /\ \E new \in Range(Keys(mg'.mergedVulns)) \ Range(Keys(mg.mergedVulns)) :
                    Has(mg'.trackedAliasMap, new)]_vars

(***************************************************************************)
(* The matcher and the result filters                                      *)
(***************************************************************************)
\* the query CPE has a concrete version
HasConcreteVersion(cpe) == getCpeVersion(cpe) # "" /\ getCpeVersion(cpe) # "*"

\* the row has a start or an end bound
HasVersionRange(row) == Truthy(row.cpe_version_start) \/ Truthy(row.cpe_version_end)

\* the range check of the row for the query CPE
RowInRange(cpe, row) ==
  isVersionInRange(JsStr(getCpeVersion(cpe)), row.cpe_version_start,
                   row.is_cpe_version_start_including = 1,
                   row.cpe_version_end, row.is_cpe_version_end_including = 1)

\* the matcher matched with this reason / did not match
DecidedMatch(reason) ==
  ~mt.decision.threw /\ mt.decision.val.matches /\ mt.decision.val.matchReason = reason

DecidedNoMatch == ~mt.decision.threw /\ ~mt.decision.val.matches

\* C11: for a row that shares the query CPE's product prefix: with a concrete
\* query version and a start or end bound the row matches iff the version is
\* in the range, as VERSION_IN_RANGE; otherwise a wildcard row always matches,
\* as GENERAL_PRODUCT_UNCERTAIN when the query has a version and as
\* GENERAL_PRODUCT_OK when it has none; otherwise the row matches iff its
\* version equals the query's, as PRODUCT_MATCH; in every other case it does
\* not match.
C11_MatcherDecision ==
  (mt.pc = "decided" /\ mt.found) =>
    IF HasConcreteVersion(mt.cpe) /\ HasVersionRange(mt.row)
    THEN IF ~RowInRange(mt.cpe, mt.row).threw /\ RowInRange(mt.cpe, mt.row).val
         THEN DecidedMatch(VERSION_IN_RANGE)
         ELSE DecidedNoMatch
    ELSE IF getCpeVersion(mt.row.cpe) = "*"
         THEN IF HasConcreteVersion(mt.cpe)
              THEN DecidedMatch(GENERAL_PRODUCT_UNCERTAIN)
              ELSE DecidedMatch(GENERAL_PRODUCT_OK)
    ELSE IF getCpeVersion(mt.row.cpe) = getCpeVersion(mt.cpe)
         THEN DecidedMatch(PRODUCT_MATCH)
         ELSE DecidedNoMatch

\* a versioned query decided against a row with an exclusive end bound it is
\* inside of
C11_Witness ==
  /\ mt.pc = "decided" /\ mt.found
  /\ getCpeVersion(mt.cpe) = "6.0"
  /\ mt.row.cpe_version_end = JsStr("7.0") /\ mt.row.is_cpe_version_end_including = 0
  /\ DecidedMatch(VERSION_IN_RANGE)

\* the records of a vulnerability map with this match reason
WithReason(vulns, reason) == {i \in 1..Len(vulns) : vulns[i].v.matchReason = reason}

\* the step in which searchVulns filters what searchVulnsBasic found and resolves
FiltersAndResolves == sv.pc = "searchVulnsBasic" /\ sv'.pc = "resolved"

\* C12: a result of searchVulns holds no GENERAL_PRODUCT_UNCERTAIN record when
\* ignoreGeneralProductVulns is set and no SINGLE_HIGHER_VERSION record unless
\* includeSingleVersionVulns is set, and the two flags remove no record with
\* another match reason: every such record found (and not removed as patched)
\* is in the result.
C12_FlagsFilterOnlyTheirReasons ==
  [][FiltersAndResolves =>
       /\ sv.flags.ignoreGeneralProductVulns
            => WithReason(sv'.vulns, GENERAL_PRODUCT_UNCERTAIN) = {}
       /\ ~sv.flags.includeSingleVersionVulns
            => WithReason(sv'.vulns, SINGLE_HIGHER_VERSION) = {}
       /\ \A i \in 1..Len(sv.vulns) :
            (/\ sv.vulns[i].v.matchReason
                  \notin {GENERAL_PRODUCT_UNCERTAIN, SINGLE_HIGHER_VERSION}
             /\ (sv.flags.includePatched \/ ~isPatched(sv.vulns[i].v)))
            => /\ Has(sv'.vulns, sv.vulns[i].k)
               /\ Get(sv'.vulns, sv.vulns[i].k).matchReason = sv.vulns[i].v.matchReason
       /\ ~sv.flags.ignoreGeneralProductVulns
            => \A i \in WithReason(sv.vulns, GENERAL_PRODUCT_UNCERTAIN) :
                 (sv.flags.includePatched \/ ~isPatched(sv.vulns[i].v))
                 => Has(sv'.vulns, sv.vulns[i].k)]_vars

\* a resolved search for "redis 6.0" with the flag set: the uncertain general
\* match of the equivalent product is gone, the exact match is kept
C12_Witness ==
  /\ sv.pc = "resolved" /\ sv.query = "redis 6.0"
  /\ sv.flags.ignoreGeneralProductVulns
  /\ Len(sv.productIds) > 1
  /\ ~Has(sv.vulns, "CVE-2023-1111")
  /\ WithReason(sv.vulns, PRODUCT_MATCH) # {}

(***************************************************************************)
(* The version functions                                                   *)
(***************************************************************************)
\* a bound that is absent (null or empty) or the wildcard
AbsentOrWildcard(bound) == bound.t # "string" \/ bound.s = "" \/ bound.s = "*"

\* compare(v, bound) for two version strings
Compare(v, bound) == compareVersions(v, bound).val

RangeCallReturned == vc.pc = "returned" /\ vc.fn = "isVersionInRange"

\* C13: for a non-empty, non-wildcard version v, isVersionInRange is true
\* exactly when (s is absent or wildcard, or compare(v,s) > 0, or sIncl and
\* compare(v,s) = 0) and (e is absent or wildcard, or compare(v,e) < 0, or
\* eIncl and compare(v,e) = 0); for an empty or wildcard v it is false.
C13_InRangeIffBetweenBounds ==
  RangeCallReturned =>
    /\ ~vc.out.threw
    /\ IF vc.a.s = "" \/ vc.a.s = "*" THEN vc.out.val = FALSE
       ELSE vc.out.val =
              (/\ \/ AbsentOrWildcard(vc.b.a[1])
                  \/ Compare(vc.a, vc.b.a[1]) > 0
                  \/ (vc.startInclusive /\ Compare(vc.a, vc.b.a[1]) = 0)
               /\ \/ AbsentOrWildcard(vc.b.a[2])
                  \/ Compare(vc.a, vc.b.a[2]) < 0
                  \/ (vc.endInclusive /\ Compare(vc.a, vc.b.a[2]) = 0))

\* a version equal to its exclusive end bound is out of the range
C13_Witness ==
  /\ RangeCallReturned
  /\ vc.a = JsStr("2.0.0") /\ vc.b.a[2] = JsStr("2.0.0") /\ vc.b.a[1] = JsStr("1.0")
  /\ ~vc.endInclusive /\ vc.startInclusive
  /\ vc.out = Ret(FALSE)

CompareCallReturned == vc.pc = "returned" /\ vc.fn = "compareVersions"

\* C14: for all version strings a and b, compareVersions(a, b) is the negation
\* of compareVersions(b, a), and compareVersions(a, a) is 0.
C14_CompareAntisymmetric ==
  (CompareCallReturned /\ vc.a.t = "string" /\ vc.b.t = "string") =>
    /\ ~vc.out.threw /\ ~vc.rev.threw
    /\ vc.out.val = -vc.rev.val
    /\ vc.a = vc.b => vc.out.val = 0

\* a number part compared with a string part, in both orders
C14_Witness ==
  /\ CompareCallReturned
  /\ vc.a = JsStr("1.0a") /\ vc.b = JsStr("1.10")
  /\ vc.out = Ret(-1) /\ vc.rev = Ret(1)

\* C15: parseVersion and compareVersions accept non-string input without
\* throwing: null and undefined parse to the empty sequence, a number parses
\* as its decimal string does, and numbers compare as their decimal strings do
\* (compareVersions(123, 124) = -1).
C15_NonStringVersionsAccepted ==
  /\ (vc.pc = "returned" /\ vc.fn = "parseVersion" /\ vc.a.t # "string") =>
       /\ ~vc.out.threw
       /\ vc.a.t \in {"null", "undefined"} => vc.out.val = <<>>
       /\ vc.a.t = "number" => vc.out = parseVersion(JsStr(vc.a.s))
  /\ (CompareCallReturned /\ (vc.a.t # "string" \/ vc.b.t # "string")) =>
       /\ ~vc.out.threw
       /\ (vc.a.t = "number" /\ vc.b.t = "number")
            => vc.out = compareVersions(JsStr(vc.a.s), JsStr(vc.b.s))

(***************************************************************************)
(* Structured CPE queries and equivalence expansion in a search            *)
(***************************************************************************)
\* n fields of '*'
Wildcards(n) == [i \in 1..n |-> "*"]

\* the fields of cpe followed by '*' fields up to 13 fields
PaddedFields(cpe) ==
  Split(cpe) \o Wildcards(IF Len(Split(cpe)) < 13 THEN 13 - Len(Split(cpe)) ELSE 0)

\* C16: for a query that matches the CPE 2.3 grammar searchVulns does not call
\* search_cpes, the query padded with '*' fields to 13 fields is the first
\* entry of product_ids.cpe, and pot_product_ids is empty.
C16_CpeQuerySkipsRetrieval ==
  (sv.pc # "idle" /\ MATCH_CPE_23_RE(sv.queryProcessed)) =>
    /\ \A i \in 1..Len(sv.calls) : sv.calls[i] # "search_cpes"
    /\ sv.pc # "search_cpes"
    /\ sv.pc \in {"searchVulnsBasic", "resolved"} =>
         /\ Len(sv.productIds) > 0
         /\ Split(sv.productIds[1]) = PaddedFields(sv.queryProcessed)
         /\ sv.potProductIds = <<>>

\* the resolved search for a five-field CPE query
C16_Witness ==
  /\ sv.pc = "resolved"
  /\ sv.query = "cpe:2.3:a:redis:redis:6.0"
  /\ sv.productIds[1] = "cpe:2.3:a:redis:redis:6.0:*:*:*:*:*:*:*"
  /\ Len(sv.productIds) > 1
  /\ sv.calls = <<"getEquivalentCpes">>

\* searchVulns got the list of getEquivalentCpes for sv.cpe and searches with it
SearchedEquivalents ==
  /\ sv.pc \in {"searchVulnsBasic", "resolved"}
  /\ Includes(sv.calls, "getEquivalentCpes")

\* the fields of a CPE from the version field onward
VersionTail(cpe) == Join(SliceFrom(Split(cpe), 5), ":")

\* the prefixes that the loaded sources connect to the prefix of cpe, without
\* that prefix
EquivalentPrefixes(cpe) ==
  (ReachFrom(SourceEdges, {ProductPrefix(cpe)}) \cap Prefixes) \ {ProductPrefix(cpe)}

\* C17: for every variant of the query CPE (the original, the split-version
\* variant, the hyphen-combined variant) and every equivalent prefix reachable
\* from the query's prefix other than that prefix, the list of
\* getEquivalentCpes holds the equivalent prefix followed by the variant's
\* fields from the version field onward, and searchVulns searches under the
\* whole list: the original CPE and each of these CPEs are in product_ids.cpe.
C17_EveryVariantUnderEveryEquivalentPrefix ==
  SearchedEquivalents =>
    /\ Includes(sv.productIds, sv.cpe)
    /\ \A i \in 1..Len(VersionVariants(sv.cpe)) :
         /\ Includes(sv.productIds, VersionVariants(sv.cpe)[i])
         /\ \A p \in EquivalentPrefixes(sv.cpe) :
              Includes(sv.productIds, p \o VersionTail(VersionVariants(sv.cpe)[i]))

\* "redis 6.0" with redis:redis -> redislabs:redis loaded is searched under
\* both products
C17_Witness ==
  /\ SearchedEquivalents
  /\ sv.query = "redis 6.0"
  /\ Includes(sv.productIds, "cpe:2.3:a:redis:redis:6.0:*:*:*:*:*:*:*")
  /\ Includes(sv.productIds, "cpe:2.3:a:redislabs:redis:6.0:*:*:*:*:*:*:*")
  /\ Has(sv.vulns, "CVE-2023-1111")

(***************************************************************************)
(* The list returned by getEquivalentCpes                                  *)
(***************************************************************************)
\* field i (0-based, as in the code) of a CPE, '*' when the CPE is shorter
FieldOr(cpe, i) == IF Len(Split(cpe)) > i THEN Split(cpe)[i + 1] ELSE "*"

UpdateUnset(cpe) == FieldOr(cpe, 6) \in {"*", "", "-"}

\* the CPE with its version and update fields replaced
WithVersionAndUpdate(cpe, version, update) ==
  Join([i \in 1..Max(Len(Split(cpe)), 7) |->
          IF i = 6 THEN version ELSE IF i = 7 THEN update
          ELSE IF i <= Len(Split(cpe)) THEN Split(cpe)[i] ELSE ""], ":")

\* the characters a run of letters / a run of digits is made of
LetterRun == Letters \cup {"."}

DigitRun == Digits \cup {"."}

AllIn(s, cls) == \A i \in 1..Len(s) : CharAt(s, i) \in cls

HasCharIn(s, cls) == \E i \in 1..Len(s) : CharAt(s, i) \in cls

\* update is the last run of version: it ends the version, is one run, and the
\* character in front of it does not continue the run
IsLastRun(version, update, cls) ==
  /\ Len(update) > 0 /\ Len(update) < Len(version)
  /\ SubSeq(version, Len(version) - Len(update) + 1, Len(version)) = update
  /\ AllIn(update, cls)
  /\ CharAt(version, Len(version) - Len(update)) \notin cls

\* variant is cpe with the last run of its version moved into the update field
IsSplitVariantOf(variant, cpe) ==
  /\ FieldOr(variant, 5) \o FieldOr(variant, 6) = FieldOr(cpe, 5)
  /\ \/ IsLastRun(FieldOr(cpe, 5), FieldOr(variant, 6), LetterRun)
     \/ IsLastRun(FieldOr(cpe, 5), FieldOr(variant, 6), DigitRun)
  /\ variant = WithVersionAndUpdate(cpe, FieldOr(variant, 5), FieldOr(variant, 6))

C19_CombinesVersionAndUpdate ==
  \A c \in Calls :
    (Returned(c) /\ ~UpdateUnset(query[c])) =>
      /\ Includes(result[c], query[c])
      /\ Includes(result[c],
                  WithVersionAndUpdate(query[c],
                                       FieldOr(query[c], 5) \o "-" \o FieldOr(query[c], 6),
                                       "*"))

\* version 1.2 with update 3 was combined into version 1.2-3
C19_Witness ==
  \E c \in Calls :
    /\ Returned(c)
    /\ query[c] = PrefixA \o "1.2:3:*"
    /\ Includes(result[c], PrefixA \o "1.2-3:*:*")

\* C20: the list returned by getEquivalentCpes(c) holds c, as its first element.
C20_OriginalCpeFirst ==
  \A c \in Calls :
    Returned(c) => Len(result[c]) > 0 /\ result[c][1] = query[c]

\* an expansion with equivalents that starts with the CPE it was called for
C20_Witness ==
  \E c \in Calls :
    /\ Returned(c)
    /\ Len(result[c]) > 1
    /\ result[c][1] = query[c]
    /\ ProductPrefix(result[c][Len(result[c])]) # ProductPrefix(query[c])

(***************************************************************************)
(* isCpeEqual                                                              *)
(***************************************************************************)
CpeEqualReturned == vc.pc = "returned" /\ vc.fn = "isCpeEqual"

FieldsOf(cpe) == Split(cpe)

\* positions both CPEs have, where the fields differ and neither is '*'
Conflicts(cpe1, cpe2) ==
  {i \in 1..Min(Len(FieldsOf(cpe1)), Len(FieldsOf(cpe2))) :
     /\ FieldsOf(cpe1)[i] # FieldsOf(cpe2)[i]
     /\ FieldsOf(cpe1)[i] # "*"
     /\ FieldsOf(cpe2)[i] # "*"}

\* C21: isCpeEqual(c, c) is true; isCpeEqual(a, b) = isCpeEqual(b, a); the
\* result is true exactly when no position that both CPEs have holds two
\* different values neither of which is '*' (so a '*' matches anything and
\* the fields beyond the shorter CPE are not compared).
C21_CpeEqualReflexiveSymmetricWildcard ==
  CpeEqualReturned =>
    /\ vc.a = vc.b => vc.out = Ret(TRUE)
    /\ vc.out = vc.rev
    /\ vc.out = Ret(Conflicts(vc.a.s, vc.b.s) = {})

\* a concrete version against a wildcard version: equal in both orders
C21_Witness ==
  /\ CpeEqualReturned
  /\ vc.a = JsStr("cpe:2.3:a:apache:http_server:2.4.49:*:*:*:*:*:*:*")
  /\ vc.b = JsStr("cpe:2.3:a:apache:http_server:*:*:*:*:*:*:*:*")
  /\ vc.out = Ret(TRUE) /\ vc.rev = Ret(TRUE)

(***************************************************************************)
(* The built adjacency map                                                 *)
(***************************************************************************)
\* C22: once loadEquivalentCpes has set the loaded flag, for every key A of
\* the map and every B in A's list, B is a key of the map and A is in B's list.
C22_MapIsBidirectional ==
  EQUIVALENT_CPES_LOADED =>
    \A i \in 1..Len(EQUIVALENT_CPES) :
      \A j \in 1..Len(EQUIVALENT_CPES[i].v) :
        /\ Has(EQUIVALENT_CPES, EQUIVALENT_CPES[i].v[j])
        /\ Includes(Get(EQUIVALENT_CPES, EQUIVALENT_CPES[i].v[j]), EQUIVALENT_CPES[i].k)

(***************************************************************************)
(* The merge target of an already tracked record                           *)
(***************************************************************************)
\* the loop of mergeModuleVulns stands before a record of the current module
AtRecord ==
  /\ mg.pc = "loop"
  /\ mg.mi <= Len(mg.mergeOrder)
  /\ Has(mg.allModuleVulns, mg.mergeOrder[mg.mi])
  /\ mg.vi <= Len(Get(mg.allModuleVulns, mg.mergeOrder[mg.mi]))

IncomingAliases == Get(mg.allModuleVulns, mg.mergeOrder[mg.mi])[mg.vi].v.aliases

ResolvesInto(t, mergedVulns) == t.found => Has(mergedVulns, t.key)

\* C23: whenever the alias search of mergeModuleVulns judges the incoming
\* record already tracked, the identifier it resolves to is a key of the merged
\* map, and the call never fails.
C23_TrackedKeyIsMerged ==
  /\ mg.pc # "threw"
  /\ AtRecord =>
       ResolvesInto(FindTracked(IncomingAliases, mg.mergedVulns, mg.trackedAliasMap, 1),
                    mg.mergedVulns)

(***************************************************************************)
(* Termination of the prefix traversal                                     *)
(***************************************************************************)
NoRepeats(list) == \A i, j \in 1..Len(list) : i # j => list[i] # list[j]

\* the map sends the prefix to a neighbour that sends it back
OnCycle(eq, cpePrefix) ==
  \E i \in 1..Len(GetOrEmpty(eq, cpePrefix)) :
    Includes(GetOrEmpty(eq, GetOrEmpty(eq, cpePrefix)[i]), cpePrefix)

\* C24: on every equivalence map, cyclic ones included, a started traversal of
\* getEquivalentCpes returns (it neither runs forever nor exhausts the call
\* stack), and no prefix is expanded by getAdditionalEquivCpes more than once.
C24_TraversalTerminates ==
  /\ [](tr.pc # "overflow")
  /\ [](NoRepeats(tr.expanded))
  /\ (tr.pc = "running" ~> tr.pc = "done")

\* a traversal over a cycle returned after expanding two prefixes, with the
\* visited set the recursive definition computes
C24_Witness ==
  /\ tr.pc = "done"
  /\ OnCycle(tr.eq, tr.cpePrefix)
  /\ Len(tr.expanded) >= 2
  /\ tr.rawEquivCpePrefixes = rawEquivCpePrefixes(tr.eq, tr.cpePrefix)

\* the step-wise traversal and the recursive one collect the same prefixes
TraversalAgrees ==
  tr.pc = "done" => tr.rawEquivCpePrefixes = rawEquivCpePrefixes(tr.eq, tr.cpePrefix)

(***************************************************************************)
(* The candidates search_cpes builds and returns                           *)
(***************************************************************************)
SearchCpesReturned == sc.pc = "returned" /\ sc.fn = "search_cpes"

HasConcreteVersionField(cpe) ==
  Len(Split(cpe)) > 5 /\ Split(cpe)[6] \notin {"", "*", "-"}

\* '<prefix>' followed by eight '*' fields
WildcardedBase(cpe) == ProductPrefix(cpe) \o "*:*:*:*:*:*:*:*"

\* no digit that could start a version fragment
CarriesNoVersion(queryStr) == \A k \in 1..Len(queryStr) : CharAt(queryStr, k) \notin Digits

\* C25: for a free-text query without a version fragment and a non-empty
\* retrieval, the potential candidates search_cpes builds hold, for every
\* retrieved CPE with a concrete version field, the fully wildcarded base CPE
\* of its product prefix.
C25_VersionlessQueryGetsBaseCpe ==
  (SearchCpesReturned /\ CarriesNoVersion(sc.query) /\ Len(sc.retrieved) > 0) =>
    \A i \in 1..Len(sc.retrieved) :
      HasConcreteVersionField(sc.retrieved[i].cpe) =>
        \E k \in 1..Len(sc.potCpes) : sc.potCpes[k].cpe = WildcardedBase(sc.retrieved[i].cpe)

(***************************************************************************)
(* The dictionary built from the deprecation source                        *)
(***************************************************************************)
\* the call has processed deprecated-cpes.json; its dictionary is the first
DeprecationsProcessed == pc[1] = "readManual" /\ resources.deprecated.present

DeprecatedDict == dictsList[1][1]

Records(d, from, to) == Has(d, from) /\ Includes(Get(d, from), to)

Linked(d, x, y) == Records(d, x, y) /\ Records(d, y, x)

\* the entries of the source under one product prefix
DeprecationsUnder(raw, prefix) ==
  {i \in 1..Len(raw) : ProductPrefix(raw[i].k) = prefix}

KnownCount(counts, prefix) ==
  IF counts.exists /\ Has(counts.rows, prefix) THEN Get(counts.rows, prefix) ELSE 0

\* at least 16% of a known count
FullyDeprecated(raw, counts, prefix) ==
  /\ KnownCount(counts, prefix) > 0
  /\ Cardinality(DeprecationsUnder(raw, prefix)) * 100 >= KnownCount(counts, prefix) * 16

\* C26: for every product prefix with deprecated CPEs, the dictionary built
\* from the deprecation source links the prefix with every other replacement
\* prefix, both ways, if its deprecated CPEs number at least 16% of its known
\* count, and otherwise links every deprecated CPE with each of its
\* replacements other than itself, both ways; in the first case no deprecated
\* full CPE of the prefix is a key.
C26_DeprecationHandledOneOfTwoWays ==
  DeprecationsProcessed =>
    \A i \in 1..Len(resources.deprecated.data) :
      IF FullyDeprecated(resources.deprecated.data, resources.counts,
                         ProductPrefix(resources.deprecated.data[i].k))
      THEN /\ \A j \in 1..Len(resources.deprecated.data[i].v) :
                ProductPrefix(resources.deprecated.data[i].v[j])
                    # ProductPrefix(resources.deprecated.data[i].k)
                  => Linked(DeprecatedDict, ProductPrefix(resources.deprecated.data[i].k),
                            ProductPrefix(resources.deprecated.data[i].v[j]))
           /\ ~Has(DeprecatedDict, resources.deprecated.data[i].k)
      ELSE \A j \in 1..Len(resources.deprecated.data[i].v) :
             resources.deprecated.data[i].v[j] # resources.deprecated.data[i].k
               => Linked(DeprecatedDict, resources.deprecated.data[i].k,
                         resources.deprecated.data[i].v[j])

\* what the code does: nothing for a product without a count, and below the
\* threshold only the pairs that isCpeEqual tells apart
DeprecationAsBuilt ==
  DeprecationsProcessed =>
    \A i \in 1..Len(resources.deprecated.data) :
      IF KnownCount(resources.counts, ProductPrefix(resources.deprecated.data[i].k)) = 0
      THEN ~Has(DeprecatedDict, resources.deprecated.data[i].k)
           /\ ~Has(DeprecatedDict, ProductPrefix(resources.deprecated.data[i].k))
      ELSE IF FullyDeprecated(resources.deprecated.data, resources.counts,
                              ProductPrefix(resources.deprecated.data[i].k))
      THEN \A j \in 1..Len(resources.deprecated.data[i].v) :
             ProductPrefix(resources.deprecated.data[i].v[j])
                 # ProductPrefix(resources.deprecated.data[i].k)
               => Linked(DeprecatedDict, ProductPrefix(resources.deprecated.data[i].k),
                         ProductPrefix(resources.deprecated.data[i].v[j]))
      ELSE \A j \in 1..Len(resources.deprecated.data[i].v) :
             Conflicts(resources.deprecated.data[i].k, resources.deprecated.data[i].v[j]) # {}
               <=> Linked(DeprecatedDict, resources.deprecated.data[i].k,
                          resources.deprecated.data[i].v[j])

(***************************************************************************)
(* The abbreviation rule of the query rewriter                             *)
(***************************************************************************)
RewriterReturned == sc.pc = "returned" /\ sc.fn = "getAlternativeQueries"

\* the abbreviation stands at the start, at the end or between spaces as a
\* token of its own
IsWholeToken(queryStr, abbreviation) ==
  StrIncludes(" " \o queryStr \o " ", " " \o abbreviation \o " ")

RequiredTokenPresent(queryStr, a) ==
  \/ Len(a.requiredKeywords) = 0
  \/ \E i \in 1..Len(a.requiredKeywords) : StrIncludes(queryStr, a.requiredKeywords[i])

\* C27: the abbreviation rule fires for an abbreviation exactly when the
\* abbreviation occurs in the query as a whole token and its required-token
\* list is empty or one of the required tokens occurs in the query; it does
\* not fire when the abbreviation only begins or ends a longer word.
C27_AbbreviationFiresOnWholeToken ==
  RewriterReturned =>
    \A i \in 1..Len(QUERY_ABBREVIATIONS) :
      Includes(sc.fired, QUERY_ABBREVIATIONS[i].abbreviation)
        <=> (/\ IsWholeToken(sc.query, QUERY_ABBREVIATIONS[i].abbreviation)
             /\ RequiredTokenPresent(sc.query, QUERY_ABBREVIATIONS[i]))

\* what the code tests: the query starts or ends with the abbreviation
RewriterFiresOnAffix ==
  RewriterReturned =>
    \A i \in 1..Len(QUERY_ABBREVIATIONS) :
      Includes(sc.fired, QUERY_ABBREVIATIONS[i].abbreviation)
        <=> (/\ \/ IsWholeToken(sc.query, QUERY_ABBREVIATIONS[i].abbreviation)
                \/ StartsWith(sc.query, QUERY_ABBREVIATIONS[i].abbreviation)
                \/ EndsWith(sc.query, QUERY_ABBREVIATIONS[i].abbreviation)
             /\ RequiredTokenPresent(sc.query, QUERY_ABBREVIATIONS[i]))

\* C28: whenever search_cpes returns a non-empty accepted list for a free-text
\* query, the score of its first entry is at least the acceptance threshold
\* of the call, whichever return statement produced the result.
C28_AcceptedTopScoreReachesThreshold ==
  (SearchCpesReturned /\ ~sc.out.threw) =>
    (Len(sc.out.val.cpes) > 0 => sc.out.val.cpes[1].sim >= sc.threshold)

\* the sanity filter removed one of two retrieved candidates and the other
\* was accepted
C28_Witness ==
  /\ SearchCpesReturned
  /\ Len(sc.retrieved) = 2
  /\ Len(sc.out.val.cpes) = 1
  /\ sc.out.val.cpes[1].sim >= sc.threshold

\* an accepted list came out of the final threshold check
AcceptedAtFinalCheck ==
  /\ SearchCpesReturned
  /\ Len(sc.out.val.cpes) = Len(sc.retrieved)
  /\ Len(sc.out.val.cpes) > 0


\* searchVulns has settled
SearchSettled == sv.pc \in {"resolved", "rejected"}

\* C29: when searchVulns completes, by a result or by a failure, every
\* connection it opened itself has been closed exactly once and is no longer
\* open, and a connection of the caller has not been closed
C29_OwnConnectionsClosedOnce ==
  SearchSettled =>
    /\ sv.closeVulnDbAfter => (sv.vulnDbCloses = 1 /\ ~sv.vulnDbOpen)
    /\ sv.closeProductDbAfter => (sv.productDbCloses = 1 /\ ~sv.productDbOpen)
    /\ sv.vulnDbSupplied => (sv.vulnDbCloses = 0 /\ sv.vulnDbOpen)
    /\ sv.productDbSupplied => (sv.productDbCloses = 0 /\ sv.productDbOpen)

\* as built: the connections are settled as C29 says when a result is returned;
\* after a failure nothing has been closed
ConnectionsAsBuilt ==
  /\ sv.pc = "resolved" =>
        /\ sv.vulnDbCloses = (IF sv.closeVulnDbAfter THEN 1 ELSE 0)
        /\ sv.productDbCloses = (IF sv.closeProductDbAfter THEN 1 ELSE 0)
        /\ sv.vulnDbOpen = sv.vulnDbSupplied
        /\ sv.productDbOpen = sv.productDbSupplied
  /\ sv.pc = "rejected" =>
        /\ sv.vulnDbCloses = 0 /\ sv.productDbCloses = 0
        /\ sv.vulnDbOpen = (sv.vulnDbSupplied \/ sv.closeVulnDbAfter)
        /\ sv.productDbOpen = (sv.productDbSupplied \/ sv.closeProductDbAfter)

\* compareVersions has returned for the three pairs of a, b and c
ThreeCompared ==
  /\ vc.pc = "returned" /\ vc.fn = "compareVersions3"
  /\ ~vc.out.threw /\ ~vc.rev.threw /\ ~vc.trans.threw

\* C30: compareVersions is transitive: whenever compareVersions(a, b) <= 0
\* and compareVersions(b, c) <= 0, also compareVersions(a, c) <= 0, numeric
\* and non-numeric segments at the same position included
C30_CompareVersionsIsTransitive ==
  ThreeCompared =>
    ((vc.out.val <= 0 /\ vc.rev.val <= 0) => vc.trans.val <= 0)

\* as built: the order is total and antisymmetric on each pair, and it is
\* transitive on versions whose segments are all numeric
AllNumeric(v) == \A i \in 1..Len(parseVersion(v).val) : parseVersion(v).val[i].num

CompareVersionsAsBuilt ==
  ThreeCompared =>
    (AllNumeric(vc.a) /\ AllNumeric(vc.b.a[1]) /\ AllNumeric(vc.b.a[2]) =>
       ((vc.out.val <= 0 /\ vc.rev.val <= 0) => vc.trans.val <= 0))
=============================================================================
